---- MODULE Spec2Model ----
(***************************************************************************)
(* Architect Studio pipeline: PipelineOrchestrator (scheduler, run loop,   *)
(* quality gates), BaseAgent.run (stage executor), AuditLogger and         *)
(* ReviewerVerifierAgent.computeSummary.                                   *)
(*                                                                         *)
(* Stage ids are opaque strings in the source and are only ever compared   *)
(* for equality; the model names the stage declared at position i by the   *)
(* number i (ids are unique, as the agents Map keyed by id requires), and  *)
(* writes Undeclared for an id that no stage of the definition carries.    *)
(* A stage's dependsOn holds distinct ids, so it is modelled as a set: its *)
(* order plays no part in topologicalSort.                                 *)
(*                                                                         *)
(* An optional field (x?: T) is a set: {} when undefined, {v} when set.    *)
(* In the run loop wall-clock values (timestamps, durationMs) are left    *)
(* out: no branch of it reads them.  The clock appears where an agent's    *)
(* stage logic writes it into its output.                                  *)
(***************************************************************************)
EXTENDS Integers, Sequences, FiniteSets, TLC

\* Largest number of stages in a pipeline definition.
MaxStages == 3
\* Largest number of ids in one stage's dependsOn.
MaxDeps == 2
\* Largest number of check functions in one stage's gateChecks.
MaxChecks == 2

\* An id used in some dependsOn that is the agentId of no declared stage.
Undeclared == MaxStages + 1

\* The reserved key 'input' of context.previousOutputs.
InputKey == 0

Absent == {}
Some(v) == {v}
TheValue(opt) == CHOOSE v \in opt : TRUE

VARIABLES
    stages,           \* PipelineOrchestrator.stages: the pipeline definition
    agents,           \* PipelineOrchestrator.agents: the ids with an agent
    runJson,          \* audit/run.json: {} until written, then {audit}
    auditLog,         \* audit/log.jsonl: the records appended so far
    runId,            \* the run id generateRunId returned last
    sortedStages,     \* run: sortedStages (stage ids in scheduled order)
    cursor,           \* run: position in sortedStages of the for loop
    previousOutputs,  \* run: context.previousOutputs, in insertion order
    stageResults,     \* run: stageResults
    result,           \* what run returned: {} until it returns
    invoked,          \* history: the ids whose agent.run was called, in order
    saves,            \* history: calls of saveRunAudit in this run
    lastGate,         \* history: the last gate that ran, {} if none
    checks,           \* ReviewerVerifierAgent: the GateCheckResults collected
    summary,          \* ReviewerVerifierAgent: computeSummary's value, {} before
    warned,           \* history: some gate result so far was a failed warning
    resolved,         \* resolveInputs on its own: the value it returned
    gateCtx,          \* gate checks on their own: what ctx.outputs holds
    checkResults,     \* gate checks on their own: the results of each check
    now,              \* the wall clock, in ticks
    outputHashes,     \* repeated runs: per run, the outputHash of each agent
    behaviour,        \* BaseAgent.run on its own: what its collaborators do
    agentReturn,      \* BaseAgent.run on its own: how the call ended
    studioResult,     \* StudioManager.run: what it returned, {} before
    written,          \* StudioManager: the output files written, in order
    pc                \* where the modelled call stands

\* The variables of StudioManager.
studioVars == <<studioResult, written>>

vars == <<stages, agents, runJson, auditLog, runId, sortedStages, cursor,
          previousOutputs, stageResults, result, invoked, saves, lastGate,
          checks, summary, warned, resolved, gateCtx, checkResults, now,
          outputHashes, behaviour, agentReturn, studioVars, pc>>

runVars == <<agents, runJson, auditLog, runId, cursor, previousOutputs,
             stageResults, result, invoked, saves, lastGate, warned>>

reviewVars == <<checks, summary>>

\* The variables of the units modelled on their own.
unitVars == <<resolved, gateCtx, checkResults, now, outputHashes, behaviour,
              agentReturn, studioVars>>

----------------------------------------------------------------------------
(* Pipeline definitions *)

\* A PipelineStage record; gateChecks is the number of declared check
\* functions when the optional field is set.
Stage(id, deps, gates) == [agentId |-> id, dependsOn |-> deps, gateChecks |-> gates]

\* The ids of the declared stages of a definition.
DeclaredIds(st) == {st[i].agentId : i \in 1..Len(st)}

\* this.stages.find(s => s.agentId === id)
StageOf(st, id) == st[CHOOSE i \in 1..Len(st) : st[i].agentId = id]

\* Every pipeline definition of up to MaxStages stages whose stages each
\* list at most MaxDeps ids, drawn from the declared ids (itself included)
\* and Undeclared: cycles, self references and dangling ids all occur.
DepChoices(n) ==
    {d \in SUBSET ((1..n) \cup {Undeclared}) : Cardinality(d) <= MaxDeps}

\* The definition of n stages whose dependsOn sets are f[1], ..., f[n].
Pipeline(n, f, g) == [i \in 1..n |-> Stage(i, f[i], g[i])]

IsAnyPipeline(st) ==
    \E n \in 1..MaxStages : \E f \in [1..n -> DepChoices(n)] :
        st = Pipeline(n, f, [i \in 1..n |-> Absent])

----------------------------------------------------------------------------
(* PipelineOrchestrator.topologicalSort *)

\* A mutated graph build that lists the dependents of dep last declared first.
RECURSIVE DependentsFromMutant(_, _, _)
DependentsFromMutant(st, dep, i) ==
    IF i > Len(st) THEN <<>>
    ELSE DependentsFromMutant(st, dep, i + 1)
         \o (IF dep \in st[i].dependsOn THEN <<st[i].agentId>> ELSE <<>>)

\* graph.get(dep): the ids of the stages that list dep in dependsOn, in
\* declaration order (the build loop visits this.stages in order).
RECURSIVE DependentsFrom(_, _, _)
DependentsFrom(st, dep, i) ==
    IF i > Len(st) THEN <<>>
    ELSE (IF dep \in st[i].dependsOn THEN <<st[i].agentId>> ELSE <<>>)
         \o DependentsFrom(st, dep, i + 1)

Dependents(st, dep) == DependentsFrom(st, dep, 1)

\* inDegree after the build loop: dependsOn.length for every stage.
InitialInDegree(st) ==
    [id \in DeclaredIds(st) |-> Cardinality(StageOf(st, id).dependsOn)]

\* A mutated seeding of the queue that takes every stage for a root.
RECURSIVE RootsFromMutant(_, _)
RootsFromMutant(st, i) ==
    IF i > Len(st) THEN <<>>
    ELSE <<st[i].agentId>> \o RootsFromMutant(st, i + 1)

\* The initial queue: the stages with empty dependsOn, in declaration order.
RECURSIVE RootsFrom(_, _)
RootsFrom(st, i) ==
    IF i > Len(st) THEN <<>>
    ELSE (IF st[i].dependsOn = {} THEN <<st[i].agentId>> ELSE <<>>)
         \o RootsFrom(st, i + 1)

\* The decrement test of a mutated scheduler: enqueues one decrement early.
ReadyMutant(deg) == deg = 1

\* if (deg === 0): the dependent is enqueued when its last dependency is done.
Ready(deg) == deg = 0

\* A mutated inner loop that puts a ready dependent at the front of the queue.
RECURSIVE RelaxMutant(_, _, _)
RelaxMutant(dependents, inDegree, queue) ==
    IF dependents = <<>> THEN [inDegree |-> inDegree, queue |-> queue]
    ELSE LET depId == Head(dependents)
             deg == inDegree[depId] - 1
         IN  RelaxMutant(Tail(dependents),
                         [inDegree EXCEPT ![depId] = deg],
                         IF Ready(deg) THEN <<depId>> \o queue ELSE queue)

\* The inner for loop over the dependents of the dequeued stage.
RECURSIVE Relax(_, _, _)
Relax(dependents, inDegree, queue) ==
    IF dependents = <<>> THEN [inDegree |-> inDegree, queue |-> queue]
    ELSE LET depId == Head(dependents)
             deg == inDegree[depId] - 1
         IN  Relax(Tail(dependents),
                   [inDegree EXCEPT ![depId] = deg],
                   IF Ready(deg) THEN Append(queue, depId) ELSE queue)

\* The while loop: queue.shift(), sorted.push(stage), relax its dependents.
RECURSIVE Drain(_, _, _, _)
Drain(st, queue, inDegree, sorted) ==
    IF queue = <<>> THEN sorted
    ELSE LET id == Head(queue)
             r == Relax(Dependents(st, id), inDegree, Tail(queue))
         IN  Drain(st, r.queue, r.inDegree, Append(sorted, id))

\* The stage ids in the order topologicalSort returns the stages.
topologicalSort(st) == Drain(st, RootsFrom(st, 1), InitialInDegree(st), <<>>)

----------------------------------------------------------------------------
(* Properties of a definition *)

\* Every dependsOn id is the id of a declared stage.
Resolvable(st) == \A i \in 1..Len(st) : st[i].dependsOn \subseteq DeclaredIds(st)

\* The ids reachable from id along dependsOn edges in at most k steps (k >= 1).
RECURSIVE ReachIn(_, _, _)
ReachIn(st, ids, k) ==
    IF k = 0 THEN {}
    ELSE LET next == UNION {StageOf(st, i).dependsOn \cap DeclaredIds(st) : i \in ids}
         IN  next \cup ReachIn(st, next, k - 1)

\* No stage depends, directly or transitively, on itself.
Acyclic(st) == \A i \in DeclaredIds(st) : i \notin ReachIn(st, {i}, Len(st))

\* Position of id in a sequence of distinct ids, 0 when absent.
PosIn(seq, id) ==
    IF \E k \in 1..Len(seq) : seq[k] = id
    THEN CHOOSE k \in 1..Len(seq) : seq[k] = id
    ELSE 0

NoDuplicates(seq) == \A a, b \in 1..Len(seq) : seq[a] = seq[b] => a = b

----------------------------------------------------------------------------
(* utils/hash.ts *)

\* computeHash: 'sha256:' + SHA-256 of JSON.stringify(data).  The digest is
\* taken to be collision free, so the hash is a tagged copy of the value.
computeHash(data) == <<"sha256", data>>

----------------------------------------------------------------------------
(* BaseAgent.run, the stage executor *)

\* What the collaborators of one call do.  inputCheck/outputCheck: "skip"
\* when the agent's config declares no schema (empty string), otherwise
\* what validator.validate does: succeed, report failure, or raise.
\* execute: the stage logic returns a value or raises.  A step the call
\* does not get to is "unreached".
AgentBehaviours ==
    {[inputCheck |-> ic, execute |-> "unreached", outputCheck |-> "unreached"] :
        ic \in {"fail", "raise"}}
    \cup {[inputCheck |-> ic, execute |-> "raise", outputCheck |-> "unreached"] :
        ic \in {"skip", "ok"}}
    \cup {[inputCheck |-> ic, execute |-> "ok", outputCheck |-> oc] :
        ic \in {"skip", "ok"}, oc \in {"skip", "ok", "fail", "raise"}}

\* The value the stage logic of agent id produces from input.
Output(id, input) == <<"artifact", id>>

\* A mutated failure result that still carries an output.
AgentFailureMutant(errors, inputHash) ==
    [success |-> FALSE, output |-> Some(<<"artifact", "invalid">>),
     errors |-> Some(errors),
     metadata |-> [inputHash |-> inputHash, outputHash |-> Absent]]

AgentFailure(errors, inputHash) ==
    [success |-> FALSE, output |-> Absent, errors |-> Some(errors),
     metadata |-> [inputHash |-> inputHash, outputHash |-> Absent]]

AgentSuccess(output, inputHash) ==
    [success |-> TRUE, output |-> Some(output), errors |-> Absent,
     metadata |-> [inputHash |-> inputHash, outputHash |-> Some(computeHash(output))]]

\* The collaborator calls BaseAgent.run makes under behaviour b, in order
\* (history): the validator on the input, execute, the validator on the
\* output.  An empty schema id skips the validator.
ValidatorCall(check) == IF check = "skip" THEN <<>> ELSE <<"validate">>

\* A mutated executor that goes on to execute after a failed input validation.
BaseAgentRunMutant(id, input, b) ==
    LET inputHash == computeHash(input)
        before == ValidatorCall(b.inputCheck) \o <<"execute">>
    IN
    IF b.inputCheck = "raise"
    THEN [thrown |-> TRUE, result |-> Absent, calls |-> <<"validate">>]
    ELSE IF b.execute # "ok"
    THEN [thrown |-> FALSE, calls |-> before,
          result |-> Some(AgentFailure(<<"stage logic fault">>, inputHash))]
    ELSE [thrown |-> FALSE, calls |-> before \o ValidatorCall(b.outputCheck),
          result |-> Some(AgentSuccess(Output(id, input), inputHash))]

\* BaseAgent.run(input, context) under behaviour b: thrown = TRUE when the
\* call ends by a fault reaching the caller, else result holds the AgentResult.
\* The input validation stands before the try block; execute, the output
\* validation and the output hash stand inside it.
BaseAgentRun(id, input, b) ==
    LET inputHash == computeHash(input)
        before == ValidatorCall(b.inputCheck) \o <<"execute">>
        after == before \o ValidatorCall(b.outputCheck)
    IN
    IF b.inputCheck = "raise"
    THEN [thrown |-> TRUE, result |-> Absent, calls |-> <<"validate">>]
    ELSE IF b.inputCheck = "fail"
    THEN [thrown |-> FALSE, calls |-> <<"validate">>,
          result |-> Some(AgentFailure(<<"Input validation failed">>, inputHash))]
    ELSE IF b.execute = "raise"
    THEN [thrown |-> FALSE, calls |-> before,
          result |-> Some(AgentFailure(<<"stage logic fault">>, inputHash))]
    ELSE IF b.outputCheck = "raise"
    THEN [thrown |-> FALSE, calls |-> after,
          result |-> Some(AgentFailure(<<"validator fault">>, inputHash))]
    ELSE IF b.outputCheck = "fail"
    THEN [thrown |-> FALSE, calls |-> after,
          result |-> Some(AgentFailure(<<"Output validation failed">>, inputHash))]
    ELSE [thrown |-> FALSE, calls |-> after,
          result |-> Some(AgentSuccess(Output(id, input), inputHash))]

\* Every way one call of agent.run can end.
AgentOutcomes(id, input) == {BaseAgentRun(id, input, b) : b \in AgentBehaviours}

----------------------------------------------------------------------------
(* Gate checks *)

Severities == {"error", "warning", "info"}

\* What one call of a check function does: raise, or return a list of
\* results (here: no result or one), each with its passed flag and severity.
CheckBehaviours ==
    {[raised |-> TRUE, results |-> <<>>], [raised |-> FALSE, results |-> <<>>]}
    \cup {[raised |-> FALSE, results |-> <<[passed |-> p, severity |-> sev]>>] :
            p \in BOOLEAN, sev \in Severities}

\* What the n check functions of a stage do when called in order.
GateBehaviours(n) == [1..n -> CheckBehaviours]

\* The GateCheckResults the c-th check function returns under behaviour b:
\* name and message are the check's own.
CheckResults(c, b) ==
    [k \in 1..Len(b.results) |->
        [name |-> c, passed |-> b.results[k].passed,
         severity |-> b.results[k].severity, message |-> <<"message", c>>]]

\* runGateChecks: the for loop calls each check and spreads its results into
\* results; there is no try/catch, so a check that raises ends the loop and
\* the fault leaves runGateChecks.  calls counts the check functions called.
RECURSIVE runGateChecksFrom(_, _, _)
runGateChecksFrom(outs, c, results) ==
    IF c > Len(outs) THEN [raised |-> FALSE, results |-> results, calls |-> c - 1]
    ELSE IF outs[c].raised THEN [raised |-> TRUE, results |-> <<>>, calls |-> c]
    ELSE runGateChecksFrom(outs, c + 1, results \o CheckResults(c, outs[c]))

runGateChecks(outs) == runGateChecksFrom(outs, 1, <<>>)

\* A mutated filter that forgets the passed flag.
IsFailureMutant(r) == r.severity = "error"

\* gateResults.filter(r => !r.passed && r.severity === 'error')
IsFailure(r) == ~r.passed /\ r.severity = "error"

\* A mutated filter that takes every result that did not pass for a failure.
GateFailuresMutant(gateResults) == SelectSeq(gateResults, LAMBDA r : ~r.passed)

RECURSIVE GateFailures(_)
GateFailures(gateResults) ==
    IF gateResults = <<>> THEN <<>>
    ELSE (IF IsFailure(Head(gateResults)) THEN <<Head(gateResults)>> ELSE <<>>)
         \o GateFailures(Tail(gateResults))

\* failures.map(f => f.message)
Messages(failures) == [k \in 1..Len(failures) |-> failures[k].message]

----------------------------------------------------------------------------
(* utils/cross_checks.ts: the five gate checks *)

\* What a check reads from ctx.outputs.  Each field stands for
\* outputs.get(id)?.field and is {} when the artifact or the field is
\* missing.  The content is kept as far as the checks decide on it:
\*   useCases    the first words of the use case actions
\*   paths       the actions that some API path includes
\*   entities    the names of the domain entities
\*   components  the handlesEntities of each component, in order
\*   adrs        for each ADR, whether it lists alternatives
\*   packs       the agent ids that have a prompt pack
\*   files       the paths of the scaffold files
\*   scripts     the names of the package scripts
ExpectedAgents ==
    {"requirements-structurer", "domain-model", "system-architect",
     "api-contract", "prompt-pack-designer", "scaffold-builder",
     "reviewer-verifier"}

RequiredFiles == {"package.json", "tsconfig.json", "src/index.ts"}

minAdrs == 3

GateContexts ==
    [useCases : {Absent, Some({}), Some({"create"})},
     paths : {Absent, Some({}), Some({"create"})},
     entities : {Absent, Some({}), Some({"Order"})},
     components : {Absent, Some(<<>>), Some(<<{"Order"}>>)},
     adrs : {Absent, Some(<<>>), Some(<<TRUE, TRUE, TRUE>>),
             Some(<<TRUE, FALSE, TRUE>>)},
     packs : {Absent, Some(ExpectedAgents),
              Some(ExpectedAgents \ {"reviewer-verifier"})},
     files : {Absent, Some(RequiredFiles), Some({"package.json"})},
     scripts : {Absent, Some({"dev"})}]

GateCheckResult(name, passed, severity, message) ==
    [name |-> name, passed |-> passed, severity |-> severity, message |-> message]

apiUseCaseCoverageCheck(ctx) ==
    IF ctx.useCases = Absent \/ ctx.paths = Absent
    THEN <<GateCheckResult("api-usecase-coverage", TRUE, "info",
                           "Insufficient data for use case coverage check")>>
    ELSE LET uncovered == TheValue(ctx.useCases) \ TheValue(ctx.paths) IN
         IF Cardinality(uncovered) > 0
         THEN <<GateCheckResult("api-usecase-coverage", FALSE, "warning",
                                "Some use cases lack API coverage")>>
         ELSE <<GateCheckResult("api-usecase-coverage", TRUE, "info",
                                "All use cases have API coverage")>>

\* The loop over componentMap.components: one error result for each
\* component that handles an entity the domain model does not name.
RECURSIVE InvalidReferences(_, _)
InvalidReferences(components, entityNames) ==
    IF components = <<>> THEN <<>>
    ELSE (IF Head(components) \ entityNames # {}
          THEN <<GateCheckResult("component-domain-alignment", FALSE, "error",
                                 "Component references unknown entities")>>
          ELSE <<>>)
         \o InvalidReferences(Tail(components), entityNames)

componentDomainAlignmentCheck(ctx) ==
    IF ctx.entities = Absent \/ ctx.components = Absent
    THEN <<GateCheckResult("component-domain-alignment", TRUE, "info",
                           "Insufficient data for domain alignment check")>>
    ELSE LET results == InvalidReferences(TheValue(ctx.components),
                                          TheValue(ctx.entities)) IN
         IF Len(results) = 0
         THEN <<GateCheckResult("component-domain-alignment", TRUE, "info",
                                "All component entity references are valid")>>
         ELSE results

adrCompletenessCheck(ctx) ==
    IF ctx.adrs = Absent
    THEN <<GateCheckResult("adr-completeness", FALSE, "error",
                           "No ADRs found in architecture output")>>
    ELSE LET adrs == TheValue(ctx.adrs) IN
         IF Len(adrs) < minAdrs
         THEN <<GateCheckResult("adr-completeness", FALSE, "warning",
                                "Fewer ADRs found than expected")>>
         ELSE IF \E k \in 1..Len(adrs) : ~adrs[k]
         THEN <<GateCheckResult("adr-completeness", FALSE, "warning",
                                "ADRs lack alternative options")>>
         ELSE <<GateCheckResult("adr-completeness", TRUE, "info",
                                "ADRs with alternatives documented")>>

promptCoverageCheck(ctx) ==
    IF ctx.packs = Absent
    THEN <<GateCheckResult("prompt-coverage", FALSE, "error",
                           "No prompt packs generated")>>
    ELSE LET missing == ExpectedAgents \ TheValue(ctx.packs) IN
         IF Cardinality(missing) > 0
         THEN <<GateCheckResult("prompt-coverage", FALSE, "warning",
                                "Missing prompt packs")>>
         ELSE <<GateCheckResult("prompt-coverage", TRUE, "info",
                                "All agents have prompt packs")>>

scaffoldIntegrityCheck(ctx) ==
    IF ctx.files = Absent
    THEN <<GateCheckResult("scaffold-integrity", FALSE, "error",
                           "No scaffold files generated")>>
    ELSE LET missing == RequiredFiles \ TheValue(ctx.files) IN
         IF Cardinality(missing) > 0
         THEN <<GateCheckResult("scaffold-integrity", FALSE, "error",
                                "Missing required files")>>
         ELSE IF ctx.scripts = Absent \/ "dev" \notin TheValue(ctx.scripts)
         THEN <<GateCheckResult("scaffold-integrity", FALSE, "warning",
                                "package.json missing dev script")>>
         ELSE <<GateCheckResult("scaffold-integrity", TRUE, "info",
                                "Scaffold includes files with required structure")>>

----------------------------------------------------------------------------
(* ReviewerVerifierAgent.computeSummary *)

\* Largest number of GateCheckResults handed to computeSummary.
MaxSummaryChecks == 3

\* The elements of the checks array.
Range(seq) == {seq[i] : i \in DOMAIN seq}

\* checks.filter(c => ...).length, the filter given as the set of kept results.
Count(seq, kept) == Cardinality({i \in DOMAIN seq : seq[i] \in kept})

\* A mutated computeSummary that counts errors whether or not they passed.
computeSummaryMutant(cs) ==
    LET passed == Count(cs, {c \in Range(cs) : c.passed})
        warnings == Count(cs, {c \in Range(cs) : ~c.passed /\ c.severity = "warning"})
        errors == Count(cs, {c \in Range(cs) : c.severity = "error"})
    IN  [totalChecks |-> Len(cs), passed |-> passed, warnings |-> warnings,
         errors |-> errors,
         overallStatus |-> IF errors > 0 THEN "failed"
                           ELSE IF warnings > 0 THEN "passed-with-warnings"
                           ELSE "passed"]

computeSummary(cs) ==
    LET passed == Count(cs, {c \in Range(cs) : c.passed})
        warnings == Count(cs, {c \in Range(cs) : ~c.passed /\ c.severity = "warning"})
        errors == Count(cs, {c \in Range(cs) : ~c.passed /\ c.severity = "error"})
    IN  [totalChecks |-> Len(cs), passed |-> passed, warnings |-> warnings,
         errors |-> errors,
         overallStatus |-> IF errors > 0 THEN "failed"
                           ELSE IF warnings > 0 THEN "passed-with-warnings"
                           ELSE "passed"]

----------------------------------------------------------------------------
(* The stage logic of two agents of the static pipeline *)

\* context.runId.replace(/[^a-f0-9]/g, '').substring(0, 32): the 32 hex
\* digits of the UUID generateRunId returned, its dashes dropped.
HexDigits(id) == <<"hex", id>>

\* PromptPackDesignerAgent.execute: ctx is the AgentContext (runId and the
\* timestamp of the run's start), time what new Date() returns.
PromptPackDesignerExecute(ctx, time) ==
    [id |-> <<"brief", HexDigits(ctx.runId)>>,
     createdAt |-> time,
     packs |-> [agentId \in ExpectedAgents |-> [lastUpdated |-> ctx.timestamp]]]

\* ReviewerVerifierAgent.execute: each check is called inside its own
\* try/catch and its results are appended to allChecks; started and ended
\* are what the clock shows at the start and at the return.
ReviewerVerifierExecute(ctx, outputs, started, ended) ==
    LET allChecks == apiUseCaseCoverageCheck(outputs)
                     \o componentDomainAlignmentCheck(outputs)
                     \o adrCompletenessCheck(outputs)
                     \o promptCoverageCheck(outputs)
                     \o scaffoldIntegrityCheck(outputs)
    IN  [id |-> <<"report", HexDigits(ctx.runId)>>,
         runId |-> ctx.runId,
         timestamp |-> ended,
         totalMs |-> ended - started,
         summary |-> computeSummary(allChecks),
         checks |-> allChecks]

----------------------------------------------------------------------------
(* AuditLogger *)

\* A mutated log that writes the file anew instead of appending to it.
logMutant(file, entry) == <<entry>>

\* log: appendJsonLine adds one record at the end of audit/log.jsonl.
log(file, entry) == Append(file, entry)

info(file, id, message, data) ==
    log(file, [runId |-> id, level |-> "info", agentId |-> Absent,
               message |-> message, data |-> data])

warn(file, id, message, data) ==
    log(file, [runId |-> id, level |-> "warn", agentId |-> Absent,
               message |-> message, data |-> data])

error(file, id, message, data) ==
    log(file, [runId |-> id, level |-> "error", agentId |-> Absent,
               message |-> message, data |-> data])

stage(file, id, agentId, message) ==
    log(file, [runId |-> id, level |-> "info", agentId |-> Some(agentId),
               message |-> message, data |-> Absent])

\* saveRunAudit: writeJsonFile replaces the content of audit/run.json.
saveRunAudit(audit) == Some(audit)

----------------------------------------------------------------------------
(* PipelineOrchestrator *)

\* The initial artifact handed to run: opaque to the orchestrator.
initialInput == <<"spec">>

\* Map.get: {} (undefined) when the key has no entry.
MapGet(outputs, key) ==
    {outputs[k].value : k \in {j \in 1..Len(outputs) : outputs[j].key = key}}

MapKeys(outputs) == [k \in 1..Len(outputs) |-> outputs[k].key]

\* A mutated Map.set that puts a new entry in front of the others.
MapSetMutant(outputs, key, value) == <<[key |-> key, value |-> value]>> \o outputs

\* Map.set: replaces the value of an existing key in place, else appends.
MapSet(outputs, key, value) ==
    IF \E k \in 1..Len(outputs) : outputs[k].key = key
    THEN [k \in 1..Len(outputs) |->
            IF outputs[k].key = key THEN [key |-> key, value |-> value]
            ELSE outputs[k]]
    ELSE Append(outputs, [key |-> key, value |-> value])

\* The number of entries of dependencyToKey's keyMap.
KeyMapSize == 6

\* The strings of keyMap, numbered apart from the position ids: its e-th id
\* ('requirements-structurer', 'domain-model', 'system-architect',
\* 'api-contract', 'prompt-pack-designer', 'scaffold-builder') and its e-th
\* key name ('designBrief', 'domainModel', 'componentMap', 'apiContract',
\* 'promptPacks', 'buildPlan').  A key name is a string like any other and
\* can itself be the id of a stage.
TableId(e) == Undeclared + e
KeyName(e) == Undeclared + KeyMapSize + e

keyMap == [id \in {TableId(e) : e \in 1..KeyMapSize} |-> id + KeyMapSize]

\* dependencyToKey: keyMap[agentId] || agentId.
dependencyToKey(agentId) ==
    IF agentId \in DOMAIN keyMap THEN keyMap[agentId] ELSE agentId

Max(ids) == CHOOSE m \in ids : \A d \in ids : d <= m

\* A mutated resolveInputs that wraps a single dependency in a keyed mapping.
resolveInputsMutant(s, outputs) ==
    IF Cardinality(s.dependsOn) = 0 THEN MapGet(outputs, InputKey)
    ELSE Some([key \in {dependencyToKey(d) : d \in s.dependsOn} |->
                 MapGet(outputs, Max({d \in s.dependsOn : dependencyToKey(d) = key}))])

\* resolveInputs: the value handed to agent.run, {} when it is undefined.
\* The loop assigns input[key] for each id of dependsOn in turn, so on a key
\* shared by two ids the later assignment stays; the model lists a dependsOn
\* in ascending order of its ids.
resolveInputs(s, outputs) ==
    IF Cardinality(s.dependsOn) = 0 THEN MapGet(outputs, InputKey)
    ELSE IF Cardinality(s.dependsOn) = 1
    THEN MapGet(outputs, CHOOSE d \in s.dependsOn : TRUE)
    ELSE Some([key \in {dependencyToKey(d) : d \in s.dependsOn} |->
                 MapGet(outputs, Max({d \in s.dependsOn : dependencyToKey(d) = key}))])

\* A mutated StageResult that records every stage as failed.
StageResultMutant(agentId, r) ==
    [agentId |-> agentId, success |-> FALSE, output |-> r.output,
     inputHash |-> r.metadata.inputHash, outputHash |-> r.metadata.outputHash,
     errors |-> r.errors]

\* The StageResult run builds from an AgentResult (gateResults is set on it
\* later and read by nothing, so it is left out, as are the durations).
StageResult(agentId, r) ==
    [agentId |-> agentId, success |-> r.success, output |-> r.output,
     inputHash |-> r.metadata.inputHash, outputHash |-> r.metadata.outputHash,
     errors |-> r.errors]

\* A mutated buildAudit that lists only the stages that succeeded.
buildAuditMutant(id, inputHash, results, status) ==
    LET ok == SelectSeq(results, LAMBDA sr : sr.success) IN
    [runId |-> id,
     inputHash |-> inputHash,
     stages |-> [k \in 1..Len(ok) |->
                   [agentId |-> ok[k].agentId,
                    inputHash |-> ok[k].inputHash,
                    outputHash |-> ok[k].outputHash,
                    success |-> ok[k].success,
                    errors |-> ok[k].errors]],
     overallStatus |-> status]

\* buildAudit
buildAudit(id, inputHash, results, status) ==
    [runId |-> id,
     inputHash |-> inputHash,
     stages |-> [k \in 1..Len(results) |->
                   [agentId |-> results[k].agentId,
                    inputHash |-> results[k].inputHash,
                    outputHash |-> results[k].outputHash,
                    success |-> results[k].success,
                    errors |-> results[k].errors]],
     overallStatus |-> status]

\* A mutated failedAt that marks a stage failure as a gate failure.
FailedAtStageMutant(agentId) == [agentId |-> agentId, gate |-> TRUE]

\* failedAt: the stage id, or `${stage.agentId}:gate`.
FailedAtStage(agentId) == [agentId |-> agentId, gate |-> FALSE]
FailedAtGate(agentId) == [agentId |-> agentId, gate |-> TRUE]

\* A mutated buildFailureResult that hands back the outputs of the stages run.
buildFailureResultMutant(id, inputHash, failedAt, errors, results) ==
    [success |-> FALSE,
     runId |-> id,
     outputs |-> [k \in 1..Len(results) |->
                    [key |-> results[k].agentId, value |-> results[k].output]],
     failedAt |-> Some(failedAt),
     errors |-> errors,
     audit |-> buildAudit(id, inputHash, results, "failed")]

\* buildFailureResult: outputs is a new, empty Map; the audit is built and
\* returned, and nothing is written to audit/run.json.
buildFailureResult(id, inputHash, failedAt, errors, results) ==
    [success |-> FALSE,
     runId |-> id,
     outputs |-> <<>>,
     failedAt |-> Some(failedAt),
     errors |-> errors,
     audit |-> buildAudit(id, inputHash, results, "failed")]

\* run, lines 52-67: run id, input hash, 'Pipeline started', the context and
\* the scheduled order.
RunStart ==
    /\ pc = "idle"
    /\ runId' = runId + 1
    /\ auditLog' = info(auditLog, runId', "Pipeline started",
                        Some(computeHash(initialInput)))
    /\ previousOutputs' = <<[key |-> InputKey, value |-> initialInput]>>
    /\ stageResults' = <<>>
    /\ sortedStages' = topologicalSort(stages)
    /\ cursor' = 1
    /\ pc' = "loop"
    /\ UNCHANGED <<stages, agents, runJson, result, invoked, saves, lastGate,
                   warned, reviewVars, unitVars>>

InLoop == pc = "loop" /\ cursor <= Len(sortedStages)

CurrentStage == StageOf(stages, sortedStages[cursor])

RunInputHash == computeHash(initialInput)

\* A mutated loop body that records a missing agent's stage as a failed stage.
AgentNotFoundMutant ==
    /\ InLoop
    /\ CurrentStage.agentId \notin agents
    /\ LET msg == <<"Agent not found", CurrentStage.agentId>>
           results == Append(stageResults,
                             StageResult(CurrentStage.agentId,
                                         AgentFailure(<<msg>>, RunInputHash)))
       IN
        /\ auditLog' = error(auditLog, runId, msg, Absent)
        /\ stageResults' = results
        /\ result' = Some(buildFailureResult(runId, RunInputHash,
                              FailedAtStage(CurrentStage.agentId),
                              Some(<<msg>>), results))
    /\ pc' = "returned"
    /\ UNCHANGED <<stages, agents, runJson, runId, sortedStages, cursor,
                   previousOutputs, invoked, saves, lastGate, warned,
                   reviewVars, unitVars>>

\* Loop body, lines 70-75: no agent is registered under the stage's id.
AgentNotFound ==
    /\ InLoop
    /\ CurrentStage.agentId \notin agents
    /\ LET msg == <<"Agent not found", CurrentStage.agentId>> IN
        /\ auditLog' = error(auditLog, runId, msg, Absent)
        /\ result' = Some(buildFailureResult(runId, RunInputHash,
                              FailedAtStage(CurrentStage.agentId),
                              Some(<<msg>>), stageResults))
    /\ pc' = "returned"
    /\ UNCHANGED <<stages, agents, runJson, runId, sortedStages, cursor,
                   previousOutputs, stageResults, invoked, saves, lastGate, warned,
                   reviewVars, unitVars>>

\* Loop body, lines 77-84: agent.run ends by a fault.  run has no try/catch,
\* so the fault leaves run.
StageRaises ==
    /\ InLoop
    /\ CurrentStage.agentId \in agents
    /\ \E o \in AgentOutcomes(CurrentStage.agentId,
                              resolveInputs(CurrentStage, previousOutputs)) :
        /\ o.thrown
        /\ auditLog' = stage(auditLog, runId, CurrentStage.agentId, "Starting")
        /\ invoked' = Append(invoked, CurrentStage.agentId)
        /\ pc' = "thrown"
    /\ UNCHANGED <<stages, agents, runJson, runId, sortedStages, cursor,
                   previousOutputs, stageResults, result, saves, lastGate, warned,
                   reviewVars, unitVars>>

\* A mutated loop body that stores what a failed stage produced.
StageFailsMutant ==
    /\ InLoop
    /\ CurrentStage.agentId \in agents
    /\ \E o \in AgentOutcomes(CurrentStage.agentId,
                              resolveInputs(CurrentStage, previousOutputs)) :
        /\ ~o.thrown
        /\ ~TheValue(o.result).success
        /\ LET r == TheValue(o.result)
               id == CurrentStage.agentId
               results == Append(stageResults, StageResult(id, r))
           IN
            /\ auditLog' = error(stage(auditLog, runId, id, "Starting"),
                                 runId, <<"Agent failed", id>>, r.errors)
            /\ stageResults' = results
            /\ previousOutputs' = MapSet(previousOutputs, id, Output(id, <<>>))
            /\ result' = Some(buildFailureResult(runId, RunInputHash,
                                  FailedAtStage(id), r.errors, results))
            /\ invoked' = Append(invoked, id)
    /\ pc' = "returned"
    /\ UNCHANGED <<stages, agents, runJson, runId, sortedStages, cursor,
                   saves, lastGate, warned, reviewVars, unitVars>>

\* Loop body, lines 77-103: the agent reports failure.
StageFails ==
    /\ InLoop
    /\ CurrentStage.agentId \in agents
    /\ \E o \in AgentOutcomes(CurrentStage.agentId,
                              resolveInputs(CurrentStage, previousOutputs)) :
        /\ ~o.thrown
        /\ ~TheValue(o.result).success
        /\ LET r == TheValue(o.result)
               id == CurrentStage.agentId
               results == Append(stageResults, StageResult(id, r))
           IN
            /\ auditLog' = error(stage(auditLog, runId, id, "Starting"),
                                 runId, <<"Agent failed", id>>, r.errors)
            /\ stageResults' = results
            /\ result' = Some(buildFailureResult(runId, RunInputHash,
                                  FailedAtStage(id), r.errors, results))
            /\ invoked' = Append(invoked, id)
    /\ pc' = "returned"
    /\ UNCHANGED <<stages, agents, runJson, runId, sortedStages, cursor,
                   previousOutputs, saves, lastGate, warned, reviewVars, unitVars>>

\* History of a gate: the messages of the results with severity 'error'
\* that did not pass, among all results the check functions return, in order.
RECURSIVE ErrorMessagesFrom(_, _)
ErrorMessagesFrom(outs, c) ==
    IF c > Len(outs) THEN <<>>
    ELSE LET failed == SelectSeq(CheckResults(c, outs[c]),
                                 LAMBDA r : r.severity = "error" /\ r.passed = FALSE)
         IN  [k \in 1..Len(failed) |-> failed[k].message]
             \o ErrorMessagesFrom(outs, c + 1)

ErrorMessages(outs) == ErrorMessagesFrom(outs, 1)

\* History of a gate: some collected result is a warning that did not pass.
HasWarning(gateResults) ==
    \E k \in 1..Len(gateResults) :
        ~gateResults[k].passed /\ gateResults[k].severity = "warning"

\* The behaviours of the gate of stage s: none when gateChecks is undefined.
GateChoices(s) ==
    IF s.gateChecks = Absent THEN {<<>>}
    ELSE GateBehaviours(TheValue(s.gateChecks))

\* Loop body, lines 77-131, the agent succeeded: the output is stored, then
\* if (stage.gateChecks) the gate runs.  Three ends: a check raises (the
\* fault leaves run), the gate aborts the run, or the stage completes.
StageSucceeds ==
    /\ InLoop
    /\ CurrentStage.agentId \in agents
    /\ \E o \in AgentOutcomes(CurrentStage.agentId,
                              resolveInputs(CurrentStage, previousOutputs)) :
        /\ ~o.thrown
        /\ TheValue(o.result).success
        /\ \E outs \in GateChoices(CurrentStage) :
           \E g \in {runGateChecks(outs)} :
           \E failures \in {GateFailures(g.results)} :
           \E started \in {stage(auditLog, runId, CurrentStage.agentId, "Starting")} :
            LET r == TheValue(o.result)
                id == CurrentStage.agentId
                results == Append(stageResults, StageResult(id, r))
                gated == CurrentStage.gateChecks # Absent
            IN
            /\ invoked' = Append(invoked, id)
            /\ previousOutputs' = MapSet(previousOutputs, id, TheValue(r.output))
            /\ warned' = (warned \/ (gated /\ HasWarning(g.results)))
            /\ lastGate' = IF gated
                           THEN Some([agentId |-> id, declared |-> Len(outs),
                                      calls |-> g.calls, raised |-> g.raised,
                                      errorMessages |-> ErrorMessages(outs)])
                           ELSE lastGate
            /\ IF gated /\ g.raised
               THEN /\ auditLog' = started
                    /\ pc' = "thrown"
                    /\ UNCHANGED <<stageResults, result, cursor>>
               ELSE IF gated /\ Len(failures) > 0
               THEN /\ auditLog' = error(started, runId, <<"Gate checks failed", id>>,
                                         Some(Messages(failures)))
                    /\ stageResults' = results
                    /\ result' = Some(buildFailureResult(runId, RunInputHash,
                                          FailedAtGate(id),
                                          Some(Messages(failures)), results))
                    /\ pc' = "returned"
                    /\ UNCHANGED cursor
               ELSE /\ auditLog' = stage(started, runId, id, "Completed")
                    /\ stageResults' = results
                    /\ cursor' = cursor + 1
                    /\ UNCHANGED <<result, pc>>
    /\ UNCHANGED <<stages, agents, runJson, runId, sortedStages, saves, reviewVars,
                   unitVars>>

\* run, lines 134-151: every scheduled stage completed.
RunSucceeds ==
    /\ pc = "loop"
    /\ cursor > Len(sortedStages)
    /\ LET audit == buildAudit(runId, RunInputHash, stageResults, "success") IN
        /\ auditLog' = info(auditLog, runId, "Pipeline completed successfully",
                            Some(Len(stageResults)))
        /\ runJson' = saveRunAudit(audit)
        /\ saves' = saves + 1
        /\ result' = Some([success |-> TRUE,
                           runId |-> runId,
                           outputs |-> previousOutputs,
                           failedAt |-> Absent,
                           errors |-> Absent,
                           audit |-> audit])
    /\ pc' = "returned"
    /\ UNCHANGED <<stages, agents, runId, sortedStages, cursor, previousOutputs,
                   stageResults, invoked, lastGate, warned, reviewVars, unitVars>>

\* The units modelled on their own have not been called.
UnitsIdle ==
    /\ resolved = Absent
    /\ gateCtx = <<>>
    /\ checkResults = <<>>
    /\ now = 0
    /\ outputHashes = <<>>
    /\ behaviour = Absent
    /\ agentReturn = Absent
    /\ studioResult = Absent
    /\ written = <<>>

\* The definitions a run is started on: every stage depends on stages
\* declared before it, but for at most one dependsOn id that is the stage
\* itself, a stage declared later or Undeclared.
Irregular(n, f) == {<<i, d>> \in (1..n) \X (1..Undeclared) : d \in f[i] /\ d >= i}

\* gateChecks per stage: undefined on every stage, or set on one stage (an
\* empty list included) and undefined on the others.
SparseGates(n) ==
    {[i \in 1..n |-> Absent]}
    \cup {[i \in 1..n |-> IF i = j THEN Some(k) ELSE Absent] :
            j \in 1..n, k \in 0..(MaxChecks - 1)}

\* gateChecks with MaxChecks checks on every stage.
FullGates(n) == [i \in 1..n |-> Some(MaxChecks)]

\* After construction: the definition, the agents map and an output
\* directory without audit files.  Either every stage has its agent and its
\* MaxChecks gate checks, or gate checks are sparse and at most one stage
\* has no agent.
Init ==
    /\ \E n \in 1..MaxStages : \E f \in [1..n -> DepChoices(n)] :
        /\ Cardinality(Irregular(n, f)) <= 1
        /\ \/ /\ stages = Pipeline(n, f, FullGates(n))
              /\ agents = 1..n
           \/ \E g \in SparseGates(n) : \E missing \in SUBSET (1..n) :
              /\ Cardinality(missing) <= 1
              /\ stages = Pipeline(n, f, g)
              /\ agents = (1..n) \ missing
    /\ runJson = Absent
    /\ auditLog = <<>>
    /\ runId = 0
    /\ sortedStages = <<>>
    /\ cursor = 0
    /\ previousOutputs = <<>>
    /\ stageResults = <<>>
    /\ result = Absent
    /\ invoked = <<>>
    /\ saves = 0
    /\ lastGate = Absent
    /\ warned = FALSE
    /\ checks = <<>>
    /\ summary = Absent
    /\ UnitsIdle
    /\ pc = "idle"

Next ==
    \/ RunStart
    \/ AgentNotFound
    \/ StageRaises
    \/ StageFails
    \/ StageSucceeds
    \/ RunSucceeds

Spec == Init /\ [][Next]_vars

----------------------------------------------------------------------------
(* The static pipeline: AGENT_PIPELINE run with the agents of createAgents *)

\* The ids of AGENT_PIPELINE.  The first six are the ids of keyMap, in its
\* order; 'reviewer-verifier' is not in keyMap.
requirementsStructurer == TableId(1)
domainModel == TableId(2)
systemArchitect == TableId(3)
apiContract == TableId(4)
promptPackDesigner == TableId(5)
scaffoldBuilder == TableId(6)
reviewerVerifier == KeyName(KeyMapSize) + 1

\* AGENT_PIPELINE, in declaration order; gateChecks holds the length of the
\* stage's list of check functions, GateChecksOf the functions themselves.
AGENT_PIPELINE ==
    <<Stage(requirementsStructurer, {}, Absent),
      Stage(domainModel, {requirementsStructurer}, Absent),
      Stage(systemArchitect, {requirementsStructurer, domainModel}, Some(2)),
      Stage(apiContract, {requirementsStructurer, systemArchitect, domainModel},
            Some(1)),
      Stage(promptPackDesigner, {requirementsStructurer}, Some(1)),
      Stage(scaffoldBuilder,
            {requirementsStructurer, domainModel, apiContract, systemArchitect},
            Some(1)),
      Stage(reviewerVerifier, {scaffoldBuilder, promptPackDesigner}, Absent)>>

\* A mutated pipeline definition whose architect gate lacks adrCompleteness.
GateChecksOfMutant(id) ==
    IF id = systemArchitect THEN <<"componentDomainAlignment">>
    ELSE IF id = apiContract THEN <<"apiUseCaseCoverage">>
    ELSE IF id = promptPackDesigner THEN <<"promptCoverage">>
    ELSE IF id = scaffoldBuilder THEN <<"scaffoldIntegrity">>
    ELSE <<>>

\* The gateChecks lists of AGENT_PIPELINE.
GateChecksOf(id) ==
    IF id = systemArchitect THEN <<"componentDomainAlignment", "adrCompleteness">>
    ELSE IF id = apiContract THEN <<"apiUseCaseCoverage">>
    ELSE IF id = promptPackDesigner THEN <<"promptCoverage">>
    ELSE IF id = scaffoldBuilder THEN <<"scaffoldIntegrity">>
    ELSE <<>>

\* check(ctx) for the check function of the given name.
CallCheck(name, ctx) ==
    IF name = "apiUseCaseCoverage" THEN apiUseCaseCoverageCheck(ctx)
    ELSE IF name = "componentDomainAlignment" THEN componentDomainAlignmentCheck(ctx)
    ELSE IF name = "adrCompleteness" THEN adrCompletenessCheck(ctx)
    ELSE IF name = "promptCoverage" THEN promptCoverageCheck(ctx)
    ELSE scaffoldIntegrityCheck(ctx)

\* runGateChecks on a list of check functions none of which raises.
RECURSIVE runGateChecksOn(_, _)
runGateChecksOn(checkNames, ctx) ==
    IF checkNames = <<>> THEN <<>>
    ELSE CallCheck(Head(checkNames), ctx) \o runGateChecksOn(Tail(checkNames), ctx)

\* What the checks can find in a field of an artifact (see GateContexts).
FieldChoices ==
    [useCases |-> {Absent, Some({}), Some({"create"})},
     paths |-> {Absent, Some({}), Some({"create"})},
     entities |-> {Absent, Some({}), Some({"Order"})},
     components |-> {Absent, Some(<<>>), Some(<<{"Order"}>>)},
     adrs |-> {Absent, Some(<<>>), Some(<<TRUE, TRUE, TRUE>>),
               Some(<<TRUE, FALSE, TRUE>>)},
     packs |-> {Absent, Some(ExpectedAgents),
                Some(ExpectedAgents \ {"reviewer-verifier"})},
     files |-> {Absent, Some(RequiredFiles), Some({"package.json"})},
     scripts |-> {Absent, Some({"dev"})}]

\* No artifact is stored: what the checks read from a fresh previousOutputs.
EmptyContext ==
    [useCases |-> Absent, paths |-> Absent, entities |-> Absent,
     components |-> Absent, adrs |-> Absent, packs |-> Absent,
     files |-> Absent, scripts |-> Absent]

\* previousOutputs.set(id, result.output) as the checks see it: the fields
\* they read from the artifact of stage id, with any content the stage logic
\* may have produced.  The reviewer's report is read by no check.
StoreArtifact(ctx, id) ==
    IF id = requirementsStructurer
    THEN {[ctx EXCEPT !.useCases = u] : u \in FieldChoices.useCases}
    ELSE IF id = domainModel
    THEN {[ctx EXCEPT !.entities = e] : e \in FieldChoices.entities}
    ELSE IF id = systemArchitect
    THEN {[ctx EXCEPT !.components = c, !.adrs = a] :
            c \in FieldChoices.components, a \in FieldChoices.adrs}
    ELSE IF id = apiContract
    THEN {[ctx EXCEPT !.paths = p] : p \in FieldChoices.paths}
    ELSE IF id = promptPackDesigner
    THEN {[ctx EXCEPT !.packs = p] : p \in FieldChoices.packs}
    ELSE IF id = scaffoldBuilder
    THEN {[ctx EXCEPT !.files = f, !.scripts = x] :
            f \in FieldChoices.files, x \in FieldChoices.scripts}
    ELSE {ctx}

\* After construction by StudioManager: AGENT_PIPELINE, every agent of
\* createAgents, an output directory without audit files.
StaticInit ==
    /\ stages = AGENT_PIPELINE
    /\ agents = DeclaredIds(AGENT_PIPELINE)
    /\ runJson = Absent
    /\ auditLog = <<>>
    /\ runId = 0
    /\ sortedStages = <<>>
    /\ cursor = 0
    /\ previousOutputs = <<>>
    /\ stageResults = <<>>
    /\ result = Absent
    /\ invoked = <<>>
    /\ saves = 0
    /\ lastGate = Absent
    /\ warned = FALSE
    /\ checks = <<>>
    /\ summary = Absent
    /\ resolved = Absent
    /\ gateCtx = EmptyContext
    /\ checkResults = <<>>
    /\ now = 0
    /\ outputHashes = <<>>
    /\ behaviour = Absent
    /\ agentReturn = Absent
    /\ studioResult = Absent
    /\ written = <<>>
    /\ pc = "idle"

\* Loop body, lines 77-131, for a stage of AGENT_PIPELINE whose agent
\* succeeded: the artifact is stored, the stage's check functions run on the
\* artifacts stored so far, and the gate aborts the run or the stage
\* completes.  The reviewer's stage logic runs the five checks on the same
\* map and its report is kept in checks and summary.
StaticStageSucceeds ==
    /\ InLoop
    /\ CurrentStage.agentId \in agents
    /\ \E o \in AgentOutcomes(CurrentStage.agentId,
                              resolveInputs(CurrentStage, previousOutputs)) :
        /\ ~o.thrown
        /\ TheValue(o.result).success
        /\ \E ctx \in StoreArtifact(gateCtx, CurrentStage.agentId) :
           \E gateResults \in {runGateChecksOn(GateChecksOf(CurrentStage.agentId), ctx)} :
           \E failures \in {GateFailures(gateResults)} :
           \E started \in {stage(auditLog, runId, CurrentStage.agentId, "Starting")} :
            LET r == TheValue(o.result)
                id == CurrentStage.agentId
                results == Append(stageResults, StageResult(id, r))
                gated == CurrentStage.gateChecks # Absent
                report == ReviewerVerifierExecute(
                              [runId |-> runId, timestamp |-> now], ctx, now, now)
            IN
            /\ invoked' = Append(invoked, id)
            /\ previousOutputs' = MapSet(previousOutputs, id, TheValue(r.output))
            /\ gateCtx' = ctx
            /\ warned' = (warned \/ (gated /\ HasWarning(gateResults)))
            /\ lastGate' = IF gated
                           THEN Some([agentId |-> id, declared |-> Len(GateChecksOf(id)),
                                      calls |-> Len(GateChecksOf(id)), raised |-> FALSE,
                                      errorMessages |-> Messages(failures)])
                           ELSE lastGate
            /\ IF id = reviewerVerifier
               THEN checks' = report.checks /\ summary' = Some(report.summary)
               ELSE UNCHANGED <<checks, summary>>
            /\ IF gated /\ Len(failures) > 0
               THEN /\ auditLog' = error(started, runId, <<"Gate checks failed", id>>,
                                         Some(Messages(failures)))
                    /\ stageResults' = results
                    /\ result' = Some(buildFailureResult(runId, RunInputHash,
                                          FailedAtGate(id),
                                          Some(Messages(failures)), results))
                    /\ pc' = "returned"
                    /\ UNCHANGED cursor
               ELSE /\ auditLog' = stage(started, runId, id, "Completed")
                    /\ stageResults' = results
                    /\ cursor' = cursor + 1
                    /\ UNCHANGED <<result, pc>>
    /\ UNCHANGED <<stages, agents, runJson, runId, sortedStages, saves,
                   resolved, checkResults, now, outputHashes, behaviour,
                   agentReturn, studioVars>>

StaticNext ==
    \/ RunStart
    \/ StageRaises
    \/ StageFails
    \/ StaticStageSucceeds
    \/ RunSucceeds

StaticSpec == StaticInit /\ [][StaticNext]_vars

----------------------------------------------------------------------------
(* StudioManager.run: the static pipeline behind the manager's try/catch *)

\* The runId of the result the catch block returns ('error'): no run id that
\* generateRunId returns.
ErrorRunId == 0

\* The steps before orchestrator.run that can raise.
StartFaults == {"readTextFile", "ensureOutputStructure", "createAgents"}

\* The catch block: the fault's message is the single error.
StudioFailure(fault) ==
    [success |-> FALSE, runId |-> ErrorRunId,
     message |-> <<"Studio execution failed">>,
     outputs |-> Absent, errors |-> Some(<<<<"fault", fault>>>>)]

\* The return of lines 68-75: the pipeline's run id and errors.
PipelineFailure(r) ==
    [success |-> FALSE, runId |-> r.runId,
     message |-> <<"Pipeline failed at", r.failedAt>>,
     outputs |-> Absent, errors |-> r.errors]

\* The return of lines 89-94.
StudioSuccess(r, paths) ==
    [success |-> TRUE, runId |-> r.runId,
     message |-> <<"Studio pipeline completed successfully">>,
     outputs |-> Some(paths), errors |-> Absent]

\* writeOutputs: the artifacts it looks up, in the order it writes them.
\* The artifact of domain-model is written nowhere.
WriteOrder ==
    <<requirementsStructurer, systemArchitect, apiContract, promptPackDesigner,
      scaffoldBuilder, reviewerVerifier>>

\* The ids whose file writeOutputs writes when nothing raises: those with an
\* artifact in outputs, the prompt packs only if (promptPacks?.packs).
FilesFor(outputs, ctx) ==
    SelectSeq(WriteOrder,
              LAMBDA id : /\ MapGet(outputs, id) # {}
                          /\ (id = promptPackDesigner => ctx.packs # Absent))

\* After the manager was called: nothing read, nothing written.
StudioInit ==
    /\ stages = AGENT_PIPELINE
    /\ agents = DeclaredIds(AGENT_PIPELINE)
    /\ runJson = Absent
    /\ auditLog = <<>>
    /\ runId = 0
    /\ sortedStages = <<>>
    /\ cursor = 0
    /\ previousOutputs = <<>>
    /\ stageResults = <<>>
    /\ result = Absent
    /\ invoked = <<>>
    /\ saves = 0
    /\ lastGate = Absent
    /\ warned = FALSE
    /\ checks = <<>>
    /\ summary = Absent
    /\ resolved = Absent
    /\ gateCtx = EmptyContext
    /\ checkResults = <<>>
    /\ now = 0
    /\ outputHashes = <<>>
    /\ behaviour = Absent
    /\ agentReturn = Absent
    /\ studioResult = Absent
    /\ written = <<>>
    /\ pc = "studio"

\* run, lines 43-59: the spec is read and parsed, the output directories
\* are made, the agents and the orchestrator are created.  A fault of one
\* of these steps is caught and returned.
StudioStart ==
    /\ pc = "studio"
    /\ \/ pc' = "idle" /\ UNCHANGED studioResult
       \/ \E fault \in StartFaults :
            /\ studioResult' = Some(StudioFailure(fault))
            /\ pc' = "done"
    /\ UNCHANGED <<stages, sortedStages, runVars, reviewVars, resolved, gateCtx,
                   checkResults, now, outputHashes, behaviour, agentReturn,
                   written>>

\* run, lines 95-102: orchestrator.run ended by a fault.
StudioCatch ==
    /\ pc = "thrown"
    /\ studioResult' = Some(StudioFailure("orchestrator.run"))
    /\ pc' = "done"
    /\ UNCHANGED <<stages, sortedStages, runVars, reviewVars, resolved, gateCtx,
                   checkResults, now, outputHashes, behaviour, agentReturn,
                   written>>

\* A mutated manager that writes the outputs of a failed pipeline.
StudioPipelineFailedMutant ==
    /\ pc = "returned"
    /\ ~TheValue(result).success
    /\ studioResult' = Some(PipelineFailure(TheValue(result)))
    /\ written' = FilesFor(previousOutputs, gateCtx)
    /\ pc' = "done"
    /\ UNCHANGED <<stages, sortedStages, runVars, reviewVars, resolved, gateCtx,
                   checkResults, now, outputHashes, behaviour, agentReturn>>

\* run, lines 68-75: the pipeline returned failure.
StudioPipelineFailed ==
    /\ pc = "returned"
    /\ ~TheValue(result).success
    /\ studioResult' = Some(PipelineFailure(TheValue(result)))
    /\ pc' = "done"
    /\ UNCHANGED <<stages, sortedStages, runVars, reviewVars, resolved, gateCtx,
                   checkResults, now, outputHashes, behaviour, agentReturn,
                   written>>

\* run, lines 77-94: the pipeline returned success and writeOutputs writes
\* the files one after the other.  A write can raise: the files before it
\* are written, and the fault is caught and returned.
StudioWriteOutputs ==
    /\ pc = "returned"
    /\ TheValue(result).success
    /\ \E files \in {FilesFor(TheValue(result).outputs, gateCtx)} :
       \E k \in 0..Len(files) :
        \/ /\ k = Len(files)
           /\ written' = files
           /\ studioResult' = Some(StudioSuccess(TheValue(result), files))
        \/ /\ written' = SubSeq(files, 1, k)
           /\ studioResult' = Some(StudioFailure("writeOutputs"))
    /\ pc' = "done"
    /\ UNCHANGED <<stages, sortedStages, runVars, reviewVars, resolved, gateCtx,
                   checkResults, now, outputHashes, behaviour, agentReturn>>

StudioNext ==
    \/ StudioStart
    \/ RunStart
    \/ StageRaises
    \/ StageFails
    \/ StaticStageSucceeds
    \/ RunSucceeds
    \/ StudioCatch
    \/ StudioPipelineFailed
    \/ StudioWriteOutputs

StudioSpec == StudioInit /\ [][StudioNext]_vars

----------------------------------------------------------------------------
(* Scheduler on its own: every definition, one call of topologicalSort *)

SortInit ==
    /\ IsAnyPipeline(stages)
    /\ agents = DeclaredIds(stages)
    /\ runJson = Absent
    /\ auditLog = <<>>
    /\ runId = 0
    /\ sortedStages = <<>>
    /\ cursor = 0
    /\ previousOutputs = <<>>
    /\ stageResults = <<>>
    /\ result = Absent
    /\ invoked = <<>>
    /\ saves = 0
    /\ lastGate = Absent
    /\ warned = FALSE
    /\ checks = <<>>
    /\ summary = Absent
    /\ UnitsIdle
    /\ pc = "defined"

Schedule ==
    /\ pc = "defined"
    /\ sortedStages' = topologicalSort(stages)
    /\ pc' = "scheduled"
    /\ UNCHANGED <<stages, runVars, reviewVars, unitVars>>

SortNext == Schedule

SortSpec == SortInit /\ [][SortNext]_vars

----------------------------------------------------------------------------
(* resolveInputs on its own: one stage, every dependsOn, one call *)

\* No run has been started.
NoRun ==
    /\ agents = {}
    /\ runJson = Absent
    /\ auditLog = <<>>
    /\ runId = 0
    /\ sortedStages = <<>>
    /\ cursor = 0
    /\ stageResults = <<>>
    /\ result = Absent
    /\ invoked = <<>>
    /\ saves = 0
    /\ lastGate = Absent
    /\ warned = FALSE
    /\ checks = <<>>
    /\ summary = Absent

\* The ids a dependsOn is drawn from: position ids, two ids of keyMap and
\* the key name of the first of them used as a stage id.
ResolveIds == (1..MaxStages) \cup {TableId(1), TableId(2), KeyName(1)}

\* context.previousOutputs holding 'input' and the artifacts of the ids given.
RECURSIVE OutputsOf(_)
OutputsOf(ids) ==
    IF ids = {} THEN <<[key |-> InputKey, value |-> initialInput]>>
    ELSE MapSet(OutputsOf(ids \ {Max(ids)}), Max(ids), Output(Max(ids), initialInput))

ResolveInit ==
    /\ \E deps \in SUBSET ResolveIds :
        /\ Cardinality(deps) <= MaxDeps
        /\ stages = <<Stage(Undeclared, deps, Absent)>>
    /\ \E stored \in SUBSET ResolveIds : previousOutputs = OutputsOf(stored)
    /\ NoRun
    /\ resolved = Absent
    /\ gateCtx = <<>>
    /\ checkResults = <<>>
    /\ now = 0
    /\ outputHashes = <<>>
    /\ behaviour = Absent
    /\ agentReturn = Absent
    /\ studioResult = Absent
    /\ written = <<>>
    /\ pc = "stored"

Resolve ==
    /\ pc = "stored"
    /\ resolved' = resolveInputs(stages[1], previousOutputs)
    /\ pc' = "resolved"
    /\ UNCHANGED <<stages, sortedStages, runVars, reviewVars, gateCtx,
                   checkResults, now, outputHashes, behaviour, agentReturn, studioVars>>

ResolveNext == Resolve

ResolveSpec == ResolveInit /\ [][ResolveNext]_vars

----------------------------------------------------------------------------
(* The same run repeated: the outputs of two agents, run after run *)

\* Largest number of runs in a row, and the last tick of the clock.
MaxRuns == 2
MaxTime == 2

\* The upstream artifacts the reviewer finds, the same in every run.
RerunContexts ==
    {c \in GateContexts : c.adrs = Absent /\ c.packs = Absent
                           /\ c.files = Absent /\ c.scripts = Absent}

RerunInit ==
    /\ gateCtx \in RerunContexts
    /\ now = 0
    /\ outputHashes = <<>>
    /\ stages = <<>>
    /\ previousOutputs = <<>>
    /\ NoRun
    /\ resolved = Absent
    /\ checkResults = <<>>
    /\ behaviour = Absent
    /\ agentReturn = Absent
    /\ studioResult = Absent
    /\ written = <<>>
    /\ pc = "idle"

\* One run: a new run id, then both agents are run by BaseAgent.run, which
\* hashes what execute returned.  The clock moves on or stands still.
Rerun ==
    /\ pc = "idle"
    /\ Len(outputHashes) < MaxRuns
    /\ runId' = runId + 1
    /\ \E started \in now..MaxTime : \E ended \in started..MaxTime :
        LET ctx == [runId |-> runId', timestamp |-> now]
            packs == PromptPackDesignerExecute(ctx, started)
            report == ReviewerVerifierExecute(ctx, gateCtx, started, ended)
            inputHash == computeHash(initialInput)
        IN  /\ now' = ended
            /\ outputHashes' = Append(outputHashes,
                  [promptPackDesigner |->
                       AgentSuccess(packs, inputHash).metadata.outputHash,
                   reviewerVerifier |->
                       AgentSuccess(report, inputHash).metadata.outputHash])
    /\ UNCHANGED <<stages, sortedStages, agents, runJson, auditLog, cursor,
                   previousOutputs, stageResults, result, invoked, saves,
                   lastGate, warned, reviewVars, resolved, gateCtx,
                   checkResults, behaviour, agentReturn, studioVars, pc>>

RerunNext == Rerun

RerunSpec == RerunInit /\ [][RerunNext]_vars

----------------------------------------------------------------------------
(* Runs in a row on one output directory *)

\* The definition the repeated runs are started on: a chain of two stages,
\* the second with one gate check.
RepeatStages == <<Stage(1, {}, Absent), Stage(2, {1}, Some(1))>>

RepeatInit ==
    /\ stages = RepeatStages
    /\ agents = DeclaredIds(RepeatStages)
    /\ runJson = Absent
    /\ auditLog = <<>>
    /\ runId = 0
    /\ sortedStages = <<>>
    /\ cursor = 0
    /\ previousOutputs = <<>>
    /\ stageResults = <<>>
    /\ result = Absent
    /\ invoked = <<>>
    /\ saves = 0
    /\ lastGate = Absent
    /\ warned = FALSE
    /\ checks = <<>>
    /\ summary = Absent
    /\ UnitsIdle
    /\ pc = "idle"

\* A mutated constructor that empties the audit directory.
NewOrchestratorMutant ==
    /\ pc \in {"returned", "thrown"}
    /\ runId < MaxRuns
    /\ \E registered \in {DeclaredIds(stages)}
                         \cup {DeclaredIds(stages) \ {id} : id \in DeclaredIds(stages)} :
        agents' = registered
    /\ runJson' = Absent
    /\ sortedStages' = <<>>
    /\ cursor' = 0
    /\ previousOutputs' = <<>>
    /\ stageResults' = <<>>
    /\ result' = Absent
    /\ invoked' = <<>>
    /\ saves' = 0
    /\ lastGate' = Absent
    /\ warned' = FALSE
    /\ pc' = "idle"
    /\ UNCHANGED <<stages, auditLog, runId, reviewVars, unitVars>>

\* A run has ended and a new PipelineOrchestrator is constructed on the same
\* output directory, with every agent registered or one missing.  The
\* constructor makes an AuditLogger, which only joins the paths of the two
\* audit files: what the earlier runs wrote stays.
NewOrchestrator ==
    /\ pc \in {"returned", "thrown"}
    /\ runId < MaxRuns
    /\ \E registered \in {DeclaredIds(stages)}
                         \cup {DeclaredIds(stages) \ {id} : id \in DeclaredIds(stages)} :
        agents' = registered
    /\ sortedStages' = <<>>
    /\ cursor' = 0
    /\ previousOutputs' = <<>>
    /\ stageResults' = <<>>
    /\ result' = Absent
    /\ invoked' = <<>>
    /\ saves' = 0
    /\ lastGate' = Absent
    /\ warned' = FALSE
    /\ pc' = "idle"
    /\ UNCHANGED <<stages, runJson, auditLog, runId, reviewVars, unitVars>>

RepeatNext ==
    \/ RunStart
    \/ AgentNotFound
    \/ StageRaises
    \/ StageFails
    \/ StageSucceeds
    \/ RunSucceeds
    \/ NewOrchestrator

RepeatSpec == RepeatInit /\ [][RepeatNext]_vars

----------------------------------------------------------------------------
(* The five gate checks on their own: every context, one call of each *)

CheckInit ==
    /\ gateCtx \in GateContexts
    /\ checkResults = <<>>
    /\ stages = <<>>
    /\ previousOutputs = <<>>
    /\ NoRun
    /\ resolved = Absent
    /\ now = 0
    /\ outputHashes = <<>>
    /\ behaviour = Absent
    /\ agentReturn = Absent
    /\ studioResult = Absent
    /\ written = <<>>
    /\ pc = "produced"

\* The results of each check on ctx, in the order of ALL_GATE_CHECKS.
RunChecks ==
    /\ pc = "produced"
    /\ checkResults' = <<apiUseCaseCoverageCheck(gateCtx),
                         componentDomainAlignmentCheck(gateCtx),
                         adrCompletenessCheck(gateCtx),
                         promptCoverageCheck(gateCtx),
                         scaffoldIntegrityCheck(gateCtx)>>
    /\ pc' = "checked"
    /\ UNCHANGED <<stages, sortedStages, runVars, reviewVars, resolved, gateCtx,
                   now, outputHashes, behaviour, agentReturn, studioVars>>

CheckNext == RunChecks

CheckSpec == CheckInit /\ [][CheckNext]_vars

----------------------------------------------------------------------------
(* BaseAgent.run on its own: every behaviour of its collaborators, one call *)

\* What the validator would do on the input and on the output ("skip": the
\* schema id is empty) and what execute would do, whether or not the call
\* gets that far; with them the agent's id and the input handed to run.
AgentCalls ==
    [agentId : 1..MaxStages,
     input : {Absent, Some(initialInput), Some(Output(1, initialInput))},
     inputCheck : {"skip", "ok", "fail", "raise"},
     execute : {"ok", "raise"},
     outputCheck : {"skip", "ok", "fail", "raise"}]

AgentInit ==
    /\ behaviour \in AgentCalls
    /\ agentReturn = Absent
    /\ studioResult = Absent
    /\ written = <<>>
    /\ stages = <<>>
    /\ previousOutputs = <<>>
    /\ NoRun
    /\ resolved = Absent
    /\ gateCtx = <<>>
    /\ checkResults = <<>>
    /\ now = 0
    /\ outputHashes = <<>>
    /\ pc = "called"

AgentRun ==
    /\ pc = "called"
    /\ agentReturn' = Some(BaseAgentRun(behaviour.agentId, behaviour.input, behaviour))
    /\ pc' = "ended"
    /\ UNCHANGED <<stages, sortedStages, runVars, reviewVars, resolved, gateCtx,
                   checkResults, now, outputHashes, behaviour, studioVars>>

AgentNext == AgentRun

AgentSpec == AgentInit /\ [][AgentNext]_vars

----------------------------------------------------------------------------
(* AuditLogger on its own: any sequence of calls, run after run *)

\* Largest number of records in audit/log.jsonl.
MaxLog == 3

\* The optional data argument of info, warn and error.
LogData == {Absent, Some(<<"payload">>)}

LogInit ==
    /\ stages = <<>>
    /\ previousOutputs = <<>>
    /\ NoRun
    /\ UnitsIdle
    /\ pc = "logging"

\* A later run on the same output directory: a new run id and a new
\* AuditLogger, whose constructor only joins the two paths.
NewLogger ==
    /\ runId < MaxRuns
    /\ runId' = runId + 1
    /\ UNCHANGED <<stages, sortedStages, agents, runJson, auditLog, cursor,
                   previousOutputs, stageResults, result, invoked, saves,
                   lastGate, warned, reviewVars, unitVars, pc>>

Logging == runId > 0 /\ Len(auditLog) < MaxLog

CallInfo ==
    /\ Logging
    /\ \E data \in LogData : auditLog' = info(auditLog, runId, "event", data)
    /\ UNCHANGED <<stages, sortedStages, agents, runJson, runId, cursor,
                   previousOutputs, stageResults, result, invoked, saves,
                   lastGate, warned, reviewVars, unitVars, pc>>

CallWarn ==
    /\ Logging
    /\ \E data \in LogData : auditLog' = warn(auditLog, runId, "event", data)
    /\ UNCHANGED <<stages, sortedStages, agents, runJson, runId, cursor,
                   previousOutputs, stageResults, result, invoked, saves,
                   lastGate, warned, reviewVars, unitVars, pc>>

CallError ==
    /\ Logging
    /\ \E data \in LogData : auditLog' = error(auditLog, runId, "event", data)
    /\ UNCHANGED <<stages, sortedStages, agents, runJson, runId, cursor,
                   previousOutputs, stageResults, result, invoked, saves,
                   lastGate, warned, reviewVars, unitVars, pc>>

CallStage ==
    /\ Logging
    /\ \E agentId \in 1..MaxStages :
          auditLog' = stage(auditLog, runId, agentId, "event")
    /\ UNCHANGED <<stages, sortedStages, agents, runJson, runId, cursor,
                   previousOutputs, stageResults, result, invoked, saves,
                   lastGate, warned, reviewVars, unitVars, pc>>

LogNext == NewLogger \/ CallInfo \/ CallWarn \/ CallError \/ CallStage

LogSpec == LogInit /\ [][LogNext]_vars

----------------------------------------------------------------------------
(* computeSummary on its own: every list of results, one call *)

SummaryInit ==
    /\ \E n \in 0..MaxSummaryChecks :
        checks \in [1..n -> [passed : BOOLEAN, severity : Severities]]
    /\ summary = Absent
    /\ stages = <<>>
    /\ agents = {}
    /\ runJson = Absent
    /\ auditLog = <<>>
    /\ runId = 0
    /\ sortedStages = <<>>
    /\ cursor = 0
    /\ previousOutputs = <<>>
    /\ stageResults = <<>>
    /\ result = Absent
    /\ invoked = <<>>
    /\ saves = 0
    /\ lastGate = Absent
    /\ warned = FALSE
    /\ UnitsIdle
    /\ pc = "collected"

Summarise ==
    /\ pc = "collected"
    /\ summary' = Some(computeSummary(checks))
    /\ pc' = "summarised"
    /\ UNCHANGED <<stages, sortedStages, runVars, checks, unitVars>>

SummaryNext == Summarise

SummarySpec == SummaryInit /\ [][SummaryNext]_vars

----------------------------------------------------------------------------
(* Claims *)

\* C1: for a definition with no cycle and every dependsOn id declared, the
\* returned order holds every declared stage exactly once and every stage
\* comes after all the stages in its dependsOn.
C1_TopologicalValidity ==
    (pc = "scheduled" /\ Acyclic(stages) /\ Resolvable(stages)) =>
        /\ Len(sortedStages) = Len(stages)
        /\ NoDuplicates(sortedStages)
        /\ {sortedStages[k] : k \in 1..Len(sortedStages)} = DeclaredIds(stages)
        /\ \A k \in 1..Len(sortedStages) :
              \A d \in StageOf(stages, sortedStages[k]).dependsOn :
                  /\ PosIn(sortedStages, d) > 0
                  /\ PosIn(sortedStages, d) < k

\* A diamond (two stages share a dependency, a third needs both) was scheduled.
C1_Witness ==
    /\ pc = "scheduled"
    /\ Acyclic(stages) /\ Resolvable(stages)
    /\ Len(stages) = 3
    /\ \E i \in 1..Len(stages) : Cardinality(stages[i].dependsOn) = 2
    /\ sortedStages # <<1, 2, 3>>

\* What run returned, once it has returned.
Returned == pc = "returned" /\ result # Absent
TheResult == TheValue(result)

\* The ids of the stages recorded in stageResults, in order.
ResultIds == [k \in 1..Len(stageResults) |-> stageResults[k].agentId]

\* The stages at and after position k of the scheduled order.
FromPosition(k) == {sortedStages[m] : m \in k..Len(sortedStages)}

\* C2: fail-fast.  If the executor reports failure for stage k of the
\* scheduled order, no stage after k is invoked, run has returned
\* success=false with failedAt = k's id, and the returned artifacts map has no
\* entry for k or for any stage after k.
C2_FailFast ==
    \A j \in 1..Len(stageResults) :
        ~stageResults[j].success =>
            LET k == stageResults[j].agentId IN
            /\ j = Len(stageResults)
            /\ Len(invoked) = j /\ invoked[j] = k
            /\ Returned
            /\ TheResult.success = FALSE
            /\ TheResult.failedAt = Some([agentId |-> k, gate |-> FALSE])
            /\ \A m \in 1..Len(TheResult.outputs) :
                  TheResult.outputs[m].key \notin FromPosition(PosIn(sortedStages, k))

\* The second of three scheduled stages failed in its executor.
C2_Witness ==
    /\ Returned
    /\ Len(sortedStages) = 3
    /\ Len(stageResults) = 2
    /\ ~stageResults[2].success
    /\ Len(invoked) = 2

\* The stage logic of the last invoked stage raised, and run returned.
LogicRaised ==
    /\ Returned
    /\ Len(stageResults) > 0
    /\ stageResults[Len(stageResults)].errors = Some(<<"stage logic fault">>)

\* The reserved key followed by the ids of the stages that succeeded.
InputAndSucceeded ==
    <<InputKey>> \o
    [k \in 1..Len(SelectSeq(stageResults, LAMBDA sr : sr.success)) |->
        SelectSeq(stageResults, LAMBDA sr : sr.success)[k].agentId]

\* C3 as stated: when a stage's logic raises, the artifacts map run returns
\* holds exactly the "input" entry and one entry per stage that succeeded
\* before it.
C3_ReturnedArtifactsAsStated ==
    LogicRaised => MapKeys(TheResult.outputs) = InputAndSucceeded

\* C3 amended: when a stage's logic raises, the artifacts map run returns is
\* empty; the run's own context.previousOutputs holds exactly the "input"
\* entry and one entry per stage that succeeded before the failing stage.
C3_ReturnedArtifactsEmpty ==
    LogicRaised =>
        /\ TheResult.outputs = <<>>
        /\ MapKeys(previousOutputs) = InputAndSucceeded

\* A -> B -> C with B raising.
C3_Witness ==
    /\ LogicRaised
    /\ Len(stages) = 3
    /\ stages[2].dependsOn = {1} /\ stages[3].dependsOn = {2}
    /\ Len(stageResults) = 2
    /\ MapKeys(previousOutputs) = <<InputKey, 1>>

\* C4: once the gate of a stage s that succeeded has collected its results,
\* the run has aborted at that gate iff some result has severity 'error' and
\* passed=false; then run returned success=false, failedAt "<s>:gate", errors
\* the messages of exactly those results, and s is the last stage invoked;
\* otherwise the loop went on past s.
C4_GateAbort ==
    /\ \A g \in lastGate :
        ~g.raised =>
            IF g.errorMessages # <<>>
            THEN /\ Returned
                 /\ TheResult.success = FALSE
                 /\ TheResult.failedAt = Some([agentId |-> g.agentId, gate |-> TRUE])
                 /\ TheResult.errors = Some(g.errorMessages)
                 /\ invoked[Len(invoked)] = g.agentId
            ELSE /\ pc \in {"loop", "returned", "thrown"}
                 /\ cursor > PosIn(sortedStages, g.agentId)
                 /\ \A r \in result :
                       r.failedAt # Some([agentId |-> g.agentId, gate |-> TRUE])
    /\ \A r \in result : \A at \in r.failedAt :
        at.gate => \E g \in lastGate :
                      /\ g.agentId = at.agentId
                      /\ ~g.raised
                      /\ g.errorMessages # <<>>

\* Two checks both returned an error-severity failure on the first of several
\* scheduled stages, and the run stopped there.
C4_Witness ==
    /\ Returned
    /\ Len(sortedStages) >= 2
    /\ \E g \in lastGate : Len(g.errorMessages) = 2 /\ g.agentId = sortedStages[1]
    /\ Len(invoked) = 1

\* The gate of a stage passed with a failing result that is no error (a
\* warning or info), and the next stage was invoked.
C4_WitnessProceeds ==
    /\ \E g \in lastGate : g.errorMessages = <<>> /\ ~g.raised /\ g.declared > 0
    /\ Len(invoked) >= 2

\* C5: no fault leaves run: whatever the stage logic, the validator and the
\* gate checks do, run ends by returning a result.
C5_NoFaultLeavesRun == pc # "thrown"

\* C6: a definition with a cycle or an undeclared dependsOn id is never
\* scheduled short: the order has one entry per declared stage, and run
\* never reports success while a declared stage was not executed.
C6_NoSilentTruncation ==
    /\ pc \in {"loop", "returned", "thrown"} => Len(sortedStages) = Len(stages)
    /\ \A r \in result :
          r.success => DeclaredIds(stages) \subseteq {invoked[k] : k \in 1..Len(invoked)}

\* C7: a gate check that raises does not abort the run: the remaining checks
\* of the stage are still called and the fault does not leave run.
C7_GateFaultIsolated ==
    \A g \in lastGate :
        g.raised => (pc # "thrown" /\ g.calls = g.declared)

\* C8: gate aggregation law.  overallStatus is 'failed' iff some result has
\* severity 'error' and passed=false; otherwise 'passed-with-warnings' iff
\* some result has severity 'warning' and passed=false; otherwise 'passed'.
C8_AggregationLaw ==
    \A sm \in summary :
        LET anyError == \E k \in 1..Len(checks) :
                            checks[k].severity = "error" /\ ~checks[k].passed
            anyWarning == \E k \in 1..Len(checks) :
                            checks[k].severity = "warning" /\ ~checks[k].passed
        IN  /\ (sm.overallStatus = "failed") <=> anyError
            /\ ~anyError => ((sm.overallStatus = "passed-with-warnings") <=> anyWarning)
            /\ (~anyError /\ ~anyWarning) => sm.overallStatus = "passed"

\* A passed error-severity result next to a failed warning was summarised.
C8_Witness ==
    /\ summary # Absent
    /\ \E k \in 1..Len(checks) : checks[k].severity = "error" /\ checks[k].passed
    /\ \E k \in 1..Len(checks) : checks[k].severity = "warning" /\ ~checks[k].passed

\* C9: every return from run carries a RunAudit whose overallStatus is
\* 'success' exactly when success is true and 'failed' otherwise, and whose
\* stage list has one summary, in execution order, for every stage whose
\* executor was invoked, the failing stage included.
C9_AuditOnEveryReturn ==
    Returned =>
        /\ TheResult.audit.overallStatus = (IF TheResult.success THEN "success" ELSE "failed")
        /\ [k \in 1..Len(TheResult.audit.stages) |-> TheResult.audit.stages[k].agentId]
              = invoked

\* A run that failed in the executor of its second stage returned its audit.
C9_Witness ==
    /\ Returned
    /\ ~TheResult.success
    /\ Len(invoked) = 2
    /\ ~TheResult.audit.stages[2].success

\* C10: the RunAudit is persisted exactly once at the end of the run, whether
\* the run ends in success or in failure.
C10_PersistedOnce == Returned => saves = 1

\* The stage whose input was resolved, and its dependsOn.
ResolvedDeps == stages[1].dependsOn

\* The artifact stored for id d: {} when there is none.
Stored(d) ==
    {previousOutputs[k].value : k \in {j \in 1..Len(previousOutputs) :
                                          previousOutputs[j].key = d}}

\* C11: for a stage with two or more dependencies the resolved input is a
\* mapping with exactly one key per dependency id and no other key; a
\* dependency named in the static table has the table's name as its key and
\* its stored artifact as the value.
C11_CompositeInput ==
    (pc = "resolved" /\ Cardinality(ResolvedDeps) >= 2) =>
        \A m \in resolved :
            /\ Cardinality(DOMAIN m) = Cardinality(ResolvedDeps)
            /\ \A d \in ResolvedDeps \cap DOMAIN keyMap :
                  /\ keyMap[d] \in DOMAIN m
                  /\ m[keyMap[d]] = Stored(d)

\* C12: with no dependency the resolved input is the reserved "input"
\* artifact; with exactly one dependency it is the artifact stored for that
\* dependency itself, not a keyed mapping around it.
C12_DirectInput ==
    pc = "resolved" =>
        /\ ResolvedDeps = {} => resolved = Some(initialInput)
        /\ \A d \in ResolvedDeps : ResolvedDeps = {d} => resolved = Stored(d)

\* The one dependency is an id of the static table and its artifact is stored.
C12_Witness ==
    /\ pc = "resolved"
    /\ ResolvedDeps = {TableId(1)}
    /\ resolved = Some(Output(TableId(1), initialInput))

\* C13: determinism.  Two runs on the same definition and the same initial
\* artifact give every stage the same outputHash.
C13_SameOutputHashes ==
    \A i, j \in 1..Len(outputHashes) : outputHashes[i] = outputHashes[j]

\* Run returned, some gate check had returned a failed warning, and no error
\* occurred: every scheduled stage has its agent, every executor call
\* returned success and no gate collected an error-severity failure.
WarningOnly ==
    /\ Returned
    /\ warned
    /\ {sortedStages[k] : k \in 1..Len(sortedStages)} \subseteq agents
    /\ Len(invoked) = Len(stageResults)
    /\ \A k \in 1..Len(stageResults) : stageResults[k].success
    /\ \A g \in lastGate : g.errorMessages = <<>>

NeededFields ==
    <<{"useCases", "paths"}, {"entities", "components"}, {"adrs"}, {"packs"},
      {"files"}>>

\* C15: each of the five gate checks, when an artifact or field it needs is
\* absent, returns exactly one result, with passed=true and severity 'info'.
C15_AbsentDataIsInfo ==
    pc = "checked" =>
        \A c \in 1..Len(checkResults) :
            (\E f \in NeededFields[c] : gateCtx[f] = Absent) =>
                /\ Len(checkResults[c]) = 1
                /\ checkResults[c][1].passed
                /\ checkResults[c][1].severity = "info"

\* How the call of BaseAgent.run ended, once it has ended.
Ended == pc = "ended" /\ agentReturn # Absent
TheReturn == TheValue(agentReturn)

\* C16: BaseAgent.run never lets a fault reach its caller, and when the
\* stage logic raises it returns success=false with the fault message as
\* the only error, inputHash set, and neither output nor outputHash.
C16_NoFaultLeavesExecutor ==
    Ended =>
        /\ ~TheReturn.thrown
        /\ (behaviour.inputCheck \in {"skip", "ok"} /\ behaviour.execute = "raise") =>
              \A r \in TheReturn.result :
                  /\ r.success = FALSE
                  /\ r.errors = Some(<<"stage logic fault">>)
                  /\ r.metadata.inputHash = computeHash(behaviour.input)
                  /\ r.output = Absent
                  /\ r.metadata.outputHash = Absent

\* C17: when the agent declares a non-empty input schema and the validation
\* of the input fails, run returns a failure result and execute is not
\* called.
C17_InvalidInputNotExecuted ==
    (Ended /\ behaviour.inputCheck = "fail") =>
        /\ ~TheReturn.thrown
        /\ \A r \in TheReturn.result : r.success = FALSE /\ r.output = Absent
        /\ TheReturn.result # Absent
        /\ \A k \in 1..Len(TheReturn.calls) : TheReturn.calls[k] # "execute"

\* The input validation failed for an agent whose execute would have
\* returned a value that passes the output validation.
C17_Witness ==
    /\ Ended
    /\ behaviour.inputCheck = "fail"
    /\ behaviour.execute = "ok" /\ behaviour.outputCheck = "ok"
    /\ TheReturn.calls = <<"validate">>

\* The entries of an artifacts map stored under id.
EntriesFor(outputs, id) == {k \in 1..Len(outputs) : outputs[k].key = id}

\* C18: when the value a stage produced fails the output validation, the
\* stage is reported as failed and run returns with failedAt that stage;
\* the value is stored neither in context.previousOutputs nor in the
\* returned map, no gate check of the stage runs and no later stage is
\* invoked.
C18_InvalidOutputDiscarded ==
    \A k \in 1..Len(stageResults) :
        stageResults[k].errors = Some(<<"Output validation failed">>) =>
            LET id == stageResults[k].agentId IN
            /\ ~stageResults[k].success
            /\ stageResults[k].output = Absent
            /\ Returned
            /\ TheResult.failedAt = Some([agentId |-> id, gate |-> FALSE])
            /\ EntriesFor(previousOutputs, id) = {}
            /\ EntriesFor(TheResult.outputs, id) = {}
            /\ invoked[Len(invoked)] = id
            /\ \A g \in lastGate : g.agentId # id

\* The output of the second stage failed its validation after the first
\* stage had stored its own.
C18_Witness ==
    /\ Returned
    /\ Len(stageResults) = 2
    /\ stageResults[2].errors = Some(<<"Output validation failed">>)
    /\ EntriesFor(previousOutputs, stageResults[1].agentId) # {}

\* C19: every result of the stage executor, as run records it, has exactly
\* one of output and errors: output iff success, errors iff not success.
C19_OutputXorErrors ==
    \A k \in 1..Len(stageResults) :
        /\ (stageResults[k].output # Absent) <=> stageResults[k].success
        /\ (stageResults[k].errors # Absent) <=> ~stageResults[k].success

\* A success followed by a failure whose stage logic had produced a value.
C19_Witness ==
    /\ Len(stageResults) >= 2
    /\ stageResults[1].success /\ stageResults[1].output # Absent
    /\ ~stageResults[Len(stageResults)].success
    /\ stageResults[Len(stageResults)].errors = Some(<<"Output validation failed">>)

\* The stages run so far are the first stages of the scheduled order.
ExecutedInScheduledOrder ==
    /\ Len(invoked) <= Len(sortedStages)
    /\ \A k \in 1..Len(invoked) : invoked[k] = sortedStages[k]

\* The stages emitted before position k of the scheduled order.
EmittedBefore(k) == {sortedStages[m] : m \in 1..(k - 1)}

\* The declared stages not emitted before position k whose dependencies
\* all are.  A stage's id is its place in the declaration.
ReadyAt(k) ==
    {id \in DeclaredIds(stages) \ EmittedBefore(k) :
        StageOf(stages, id).dependsOn \subseteq EmittedBefore(k)}

\* The position at which the last dependency of id was emitted, 0 for a
\* stage without dependencies.
ReadySince(id) ==
    LET at == {PosIn(sortedStages, d) : d \in StageOf(stages, id).dependsOn}
    IN  IF at = {} THEN 0 ELSE Max(at)

\* C20 as stated: stages execute in the scheduled order, and in a definition
\* without defect every stage of that order is the earliest-declared of the
\* stages that were ready when it was emitted.
C20_EarliestDeclaredReady ==
    pc # "idle" =>
        /\ ExecutedInScheduledOrder
        /\ (Acyclic(stages) /\ Resolvable(stages)) =>
              \A k \in 1..Len(sortedStages) :
                  \A id \in ReadyAt(k) : sortedStages[k] <= id

\* C20 amended: stages execute in the scheduled order, and that order is
\* first-in first-out by readiness: of two scheduled stages the one whose
\* last dependency was emitted earlier comes first (a stage without
\* dependencies being ready from the start), and of two stages ready
\* since the same emission the earlier-declared comes first.
C20_FifoByReadiness ==
    pc # "idle" =>
        /\ ExecutedInScheduledOrder
        /\ \A a, b \in 1..Len(sortedStages) :
              a < b =>
                LET x == sortedStages[a]
                    y == sortedStages[b]
                IN  \/ ReadySince(x) < ReadySince(y)
                    \/ (ReadySince(x) = ReadySince(y) /\ x < y)

\* Three stages ran in the order first, third, second: the second waited
\* for the first while the third was ready from the start.
C20_Witness ==
    /\ Len(stages) = 3
    /\ stages[2].dependsOn = {1}
    /\ stages[3].dependsOn = {}
    /\ invoked = <<1, 3, 2>>

\* C21: the event log is append-only.  A step either is no logger call and
\* leaves the log as it is, or it is one call and the log after it is the
\* log before it with exactly one record added at the end.
C21_AppendOnly ==
    [][\/ auditLog' = auditLog /\ runId' # runId
       \/ /\ Len(auditLog') = Len(auditLog) + 1
          /\ SubSeq(auditLog', 1, Len(auditLog)) = auditLog]_vars

\* The log holds records of two runs, the later run's behind the earlier's.
C21_Witness ==
    /\ Len(auditLog) = 3
    /\ auditLog[1].runId = 1
    /\ auditLog[3].runId = 2
    /\ auditLog[1].level = "error" /\ auditLog[3].agentId # Absent

\* The keys of an artifacts map, as a set.
KeySet(outputs) == {outputs[k].key : k \in 1..Len(outputs)}

\* The ids of the stages whose executor returned success, as run records them.
SucceededIds(results) ==
    {results[k].agentId : k \in {j \in 1..Len(results) : results[j].success}}

\* C22: a step that invokes a stage's executor starts from an artifacts map
\* with an entry for every id of that stage's dependsOn; a step in which
\* the gate checks of a stage run hands them a map whose entries are
\* "input", the stages recorded as succeeded and the stage itself, all of
\* which have run.
C22_ArtifactsBeforeUse ==
    [][/\ invoked' # invoked =>
             StageOf(stages, invoked'[Len(invoked')]).dependsOn
                 \subseteq KeySet(previousOutputs)
       /\ (lastGate' # lastGate /\ lastGate' # Absent) =>
             /\ KeySet(previousOutputs') \subseteq
                    {InputKey} \cup SucceededIds(stageResults')
                               \cup {TheValue(lastGate').agentId}
             /\ KeySet(previousOutputs') \ {InputKey} \subseteq
                    {invoked'[k] : k \in 1..Len(invoked')}
             /\ invoked'[Len(invoked')] = TheValue(lastGate').agentId]_vars

\* A stage with two dependencies was invoked third, and its gate ran.
C22_Witness ==
    /\ Len(invoked) = 3
    /\ Cardinality(StageOf(stages, invoked[3]).dependsOn) = 2
    /\ \E g \in lastGate : g.agentId = invoked[3] /\ g.calls > 0

\* The step invoked a stage whose executor returned success: run recorded
\* the success, or went on to the stage's gate.
InvokedWithSuccess ==
    /\ invoked' # invoked
    /\ LET id == invoked'[Len(invoked')] IN
        \/ \E k \in 1..Len(stageResults') :
              stageResults'[k].agentId = id /\ stageResults'[k].success
        \/ \E g \in lastGate' : g.agentId = id /\ lastGate' # lastGate

\* C23: the artifacts map only grows.  Once seeded with "input", a step
\* that invokes a stage whose executor succeeds adds one entry, for that
\* stage, behind the entries there were, and every other step of the run
\* (a failed stage, a missing agent, the gate checks, the return) leaves
\* the map as it is.
C23_ArtifactsOnlyGrow ==
    [][IF pc = "idle"
       THEN previousOutputs' = <<[key |-> InputKey, value |-> initialInput]>>
       ELSE IF InvokedWithSuccess
       THEN /\ Len(previousOutputs') = Len(previousOutputs) + 1
            /\ SubSeq(previousOutputs', 1, Len(previousOutputs)) = previousOutputs
            /\ previousOutputs'[Len(previousOutputs')].key = invoked'[Len(invoked')]
       ELSE previousOutputs' = previousOutputs]_vars

\* Two stages stored their outputs one after the other and the third failed.
C23_Witness ==
    /\ Returned
    /\ Len(stageResults) = 3
    /\ ~stageResults[3].success
    /\ MapKeys(previousOutputs) = <<InputKey, invoked[1], invoked[2]>>

\* The kinds of record in the event log.  An error record carries the stage
\* id in its message, a stage record in its agentId.
IsStarting(e, id) ==
    e.level = "info" /\ e.agentId = Some(id) /\ e.message = "Starting"

IsCompleted(e, id) ==
    e.level = "info" /\ e.agentId = Some(id) /\ e.message = "Completed"

IsErrorFor(e, id) == e.level = "error" /\ e.message[2] = id

IsPipelineEvent(e, message) ==
    e.level = "info" /\ e.agentId = Absent /\ e.message = message

\* The positions in the log of the records of one kind for stage id.
StartingAt(id) == {i \in 1..Len(auditLog) : IsStarting(auditLog[i], id)}
ClosingAt(id) ==
    {i \in 1..Len(auditLog) :
        IsCompleted(auditLog[i], id) \/ IsErrorFor(auditLog[i], id)}

\* C24: event ordering within a run.  'Pipeline started' is the first
\* event; every invoked stage has one 'Starting' event and, after it,
\* exactly one error or 'Completed' event; 'Completed' for a stage comes
\* only after the stage succeeded and its gate collected no error-severity
\* failure; 'Pipeline completed successfully' comes only after a
\* 'Completed' event of every scheduled stage.
C24_EventOrder ==
    pc # "idle" =>
        /\ Len(auditLog) >= 1
        /\ IsPipelineEvent(auditLog[1], "Pipeline started")
        /\ \A k \in 1..Len(invoked) :
              /\ Cardinality(StartingAt(invoked[k])) = 1
              /\ Cardinality(ClosingAt(invoked[k])) = 1
              /\ \A i \in StartingAt(invoked[k]) :
                    \A j \in ClosingAt(invoked[k]) : i < j
        /\ \A j \in 1..Len(auditLog) : \A id \in DeclaredIds(stages) :
              IsCompleted(auditLog[j], id) =>
                  /\ id \in SucceededIds(stageResults)
                  /\ \A i \in 1..Len(auditLog) : ~IsErrorFor(auditLog[i], id)
                  /\ \A g \in lastGate :
                        g.agentId = id => (~g.raised /\ g.errorMessages = <<>>)
        /\ \A j \in 1..Len(auditLog) :
              IsPipelineEvent(auditLog[j], "Pipeline completed successfully") =>
                  \A k \in 1..Len(sortedStages) :
                      \E i \in 1..(j - 1) : IsCompleted(auditLog[i], sortedStages[k])

\* The order in which the scheduler is to emit the stages of AGENT_PIPELINE.
StaticOrder ==
    <<requirementsStructurer, domainModel, promptPackDesigner, systemArchitect,
      apiContract, scaffoldBuilder, reviewerVerifier>>

C26_ReportNeverFailed ==
    summary # Absent =>
        /\ TheValue(summary).errors = 0
        /\ TheValue(summary).overallStatus # "failed"
        /\ \A k \in 1..Len(checks) : ~IsFailure(checks[k])

\* C26 witness: the reviewer of a static run produced a report over the
\* results of all five checks, one of them a warning.
C26_Witness ==
    /\ stages = AGENT_PIPELINE
    /\ invoked # <<>> /\ invoked[Len(invoked)] = reviewerVerifier
    /\ summary # Absent
    /\ TheValue(summary).totalChecks = 5
    /\ TheValue(summary).overallStatus = "passed-with-warnings"

\* The ids of the runs that logged 'Pipeline completed successfully'.
SucceededRuns ==
    {auditLog[i].runId :
        i \in {j \in 1..Len(auditLog) :
                 IsPipelineEvent(auditLog[j], "Pipeline completed successfully")}}

\* C27: a run that ends in failure (stage failure, gate abort or missing
\* agent) leaves audit/run.json as it was: none when no earlier run
\* succeeded, else the summary of the latest successful run, with that run's
\* id and overallStatus 'success'; the event log holds the failed run's events.
C27_FailedRunKeepsSummary ==
    (Returned /\ ~TheResult.success) =>
        /\ runId \notin SucceededRuns
        /\ IF SucceededRuns = {} THEN runJson = Absent
           ELSE /\ runJson # Absent
                /\ TheValue(runJson).runId = Max(SucceededRuns)
                /\ TheValue(runJson).runId # runId
                /\ TheValue(runJson).overallStatus = "success"
        /\ auditLog[Len(auditLog)].runId = runId
        /\ auditLog[Len(auditLog)].level = "error"

\* C27 witness: a run failed after an earlier run on the same directory
\* succeeded.
C27_Witness ==
    /\ Returned /\ ~TheResult.success
    /\ runJson # Absent
    /\ TheValue(runJson).runId < runId

\* The run returned by a gate abort.
GateAborted ==
    /\ Returned
    /\ TheResult.failedAt # Absent
    /\ TheValue(TheResult.failedAt).gate

\* C28: when a gate check aborts the run, the returned RunAudit has
\* overallStatus 'failed' while every stage summary in it, the one of the
\* stage whose gate failed included, has success = true and no errors; the
\* failing gate messages are in the result's errors and in the last event
\* of the log, and nothing is written to audit/run.json.
C28_GateAbortAudit ==
    GateAborted =>
        LET audit == TheResult.audit
            id == TheValue(TheResult.failedAt).agentId
            last == auditLog[Len(auditLog)]
        IN  /\ audit.overallStatus = "failed"
            /\ Len(audit.stages) >= 1
            /\ audit.stages[Len(audit.stages)].agentId = id
            /\ \A k \in 1..Len(audit.stages) :
                  audit.stages[k].success /\ audit.stages[k].errors = Absent
            /\ TheResult.errors # Absent
            /\ TheValue(TheResult.errors) # <<>>
            /\ TheResult.errors = Some(TheValue(lastGate).errorMessages)
            /\ last.level = "error"
            /\ last.message = <<"Gate checks failed", id>>
            /\ last.data = TheResult.errors
            /\ runJson = Absent

\* C28 witness: the gate of the second stage aborted the run.
C28_Witness ==
    /\ GateAborted
    /\ Len(TheResult.audit.stages) = 2
    /\ TheResult.audit.stages[2].success

\* The run returned at a stage that has no agent.
ReturnedAtMissingAgent ==
    /\ Returned
    /\ TheResult.failedAt # Absent
    /\ ~TheValue(TheResult.failedAt).gate
    /\ TheValue(TheResult.failedAt).agentId \notin agents

\* C29: if a scheduled stage has no agent registered under its id, run
\* returns success = false with failedAt that stage's id and errors =
\* ["Agent not found: <id>"]; the stages scheduled before it have been
\* executed, no stage at or after it is invoked, and the returned audit's
\* stage list has no entry for the missing stage.  No agentless stage is
\* ever invoked, and no run over one returns success.
C29_MissingAgent ==
    /\ \A k \in 1..Len(invoked) : invoked[k] \in agents
    /\ (Returned /\ TheResult.success) =>
          \A k \in 1..Len(sortedStages) : sortedStages[k] \in agents
    /\ ReturnedAtMissingAgent =>
          LET id == TheValue(TheResult.failedAt).agentId
              pos == PosIn(sortedStages, id)
              audit == TheResult.audit
          IN  /\ ~TheResult.success
              /\ TheResult.errors = Some(<<<<"Agent not found", id>>>>)
              /\ invoked = SubSeq(sortedStages, 1, pos - 1)
              /\ \A k \in 1..(pos - 1) : sortedStages[k] \in agents
              /\ [k \in 1..Len(audit.stages) |-> audit.stages[k].agentId] = invoked
              /\ \A k \in 1..Len(audit.stages) : audit.stages[k].agentId # id
              /\ audit.overallStatus = "failed"

\* C29 witness: the run returned at a missing agent after another stage
\* had been executed.
C29_Witness ==
    /\ ReturnedAtMissingAgent
    /\ Len(invoked) >= 1
    /\ Len(sortedStages) > Len(invoked) + 1

\* The manager returned.
StudioReturned == pc = "done" /\ studioResult # Absent

\* The result of the catch block: not a success, runId 'error', one error.
IsStudioFailure(s) ==
    /\ ~s.success
    /\ s.runId = ErrorRunId
    /\ s.errors # Absent
    /\ Len(TheValue(s.errors)) = 1

\* s is a prefix of t.
IsPrefix(s, t) == Len(s) <= Len(t) /\ s = SubSeq(t, 1, Len(s))

\* C30: StudioManager.run never raises and writes artifact output files
\* only after the pipeline returned success = true.  When the pipeline fails
\* it returns success = false with the pipeline's runId and errors and
\* writes nothing; when a step raises (reading the spec, the orchestrator,
\* writing outputs) it returns success = false with runId 'error' and the
\* fault message as the single error.
C30_StudioManager ==
    /\ pc \in {"studio", "idle", "loop", "returned", "thrown", "done"}
    /\ (pc = "done") <=> (studioResult # Absent)
    /\ written # <<>> => (result # Absent /\ TheValue(result).success)
    /\ StudioReturned =>
        LET s == TheValue(studioResult) IN
        IF result = Absent
        THEN IsStudioFailure(s) /\ written = <<>>
        ELSE IF ~TheValue(result).success
        THEN /\ ~s.success
             /\ s.runId = TheValue(result).runId
             /\ s.runId # ErrorRunId
             /\ s.errors = TheValue(result).errors
             /\ written = <<>>
        ELSE \/ /\ s.success
                /\ s.runId = TheValue(result).runId
                /\ written = FilesFor(TheValue(result).outputs, gateCtx)
             \/ /\ IsStudioFailure(s)
                /\ IsPrefix(written, FilesFor(TheValue(result).outputs, gateCtx))

\* C30 witness: the manager returned the failure of a pipeline that was
\* aborted by a gate after several stages had stored their artifacts.
C30_Witness ==
    /\ StudioReturned
    /\ result # Absent
    /\ ~TheValue(result).success
    /\ Len(previousOutputs) >= 3
    /\ TheValue(studioResult).errors = TheValue(result).errors

====
